---- MODULE Spec2Model ----
(***************************************************************************)
(* Model of github.com/zchee/zap-encoder.                                  *)
(*                                                                         *)
(* Part 1: package pool, the byte-slice backed MapBuffer (pool/map.go)     *)
(* and the sync.Pool it is recycled through.                               *)
(*                                                                         *)
(* Bytes are the integers 0..255, strings and byte slices are sequences of *)
(* bytes.  Go memory is modelled explicitly: mem is the sequence of the    *)
(* backing arrays that were allocated, a slice or a string is a header     *)
(* (ptr, len, cap) into it, so that aliasing between a buffer and the      *)
(* strings taken from it is part of the state.                             *)
(***************************************************************************)
EXTENDS Integers, Sequences, FiniteSets, Bags, TLC

VARIABLES
    mem,        \* backing arrays: mem[a] is the written prefix of array a
    heap,       \* the *MapBuffer objects created by the pool's New
    idle,       \* the sync.Pool: a bag of references to MapBuffer objects
    local,      \* per caller: the reference it got, and where it is
    view,       \* per caller: the string last obtained from String()
    calls,      \* per buffer: the append calls made since the last Reset
    over,       \* per buffer: content has exceeded the initial capacity
    doublePut,  \* some caller has Put the same reference twice
    last,       \* the operation that led to this state, with what it saw
    esc,        \* a run of the encoder's safeAddString: input, position, output
    encs,       \* the stackdriverEncoder objects
    bufs,       \* the content of the buffers the encoders write to
    elast,      \* the encoder call that led to this state, with what it saw
    sde,        \* the stackdriver Encoder objects wrapping a JSON encoder
    sent,       \* what the last call on such an Encoder passed on
    twin        \* the two MapBuffer implementations, given the same calls

poolVars == <<mem, heap, idle, local, view, calls, over, doublePut, last>>

encVars == <<encs, bufs, elast>>

sdVars == <<sde, sent>>

vars == <<mem, heap, idle, local, view, calls, over, doublePut, last, esc,
          encs, bufs, elast, sde, sent, twin>>

----------------------------------------------------------------------------
(* Bounds of the model *)

MaxBufs == 2
MaxLen == 5
MaxGrow == 1
MaxPoolLen == 1
MaxBufLen == 3

MaxIdle == MaxBufs

(* Program constants *)

size == 1024

\* the goroutines that use the pool
Callers == {1, 2}

Max(a, b) == IF a >= b THEN a ELSE b

----------------------------------------------------------------------------
(* Go slices over explicit memory *)

NilSlice == [ptr |-> 0, len |-> 0, cap |-> 0]

\* the bytes a slice header denotes
SliceBytes(m, s) == IF s.len = 0 THEN <<>> ELSE SubSeq(m[s.ptr], 1, s.len)

\* make([]byte, 0, c): a fresh zeroed array, nothing of it written yet
MakeSlice(m, c) ==
    [mem |-> Append(m, <<>>), bs |-> [ptr |-> Len(m) + 1, len |-> 0, cap |-> c]]

\* does append(s, elems...) have to allocate
Grows(s, k) == s.len + k > s.cap

\* runtime/sizeclasses.go: the object sizes malloc serves up to 32768 bytes
SizeClasses ==
    <<8, 16, 24, 32, 48, 64, 80, 96, 112, 128, 144, 160, 176, 192, 208, 224,
      240, 256, 288, 320, 352, 384, 416, 448, 480, 512, 576, 640, 704, 768,
      896, 1024, 1152, 1280, 1408, 1536, 1792, 2048, 2304, 2688, 3072, 3200,
      3456, 4096, 4864, 5376, 6144, 6528, 6784, 6912, 8192, 9472, 9728,
      10240, 10880, 12288, 13568, 14336, 16384, 18432, 19072, 20480, 21760,
      24576, 27264, 28672, 32768>>

\* runtime.roundupsize, for n >= 1: the size class that holds n bytes, whole
\* pages above the largest class.  The class of 24 bytes came with Go 1.15.
RoundUpSize(n, class24) ==
    IF n > 32768 THEN ((n + 8191) \div 8192) * 8192
    ELSE LET fit == { i \in DOMAIN SizeClasses :
                        SizeClasses[i] >= n /\ (class24 \/ SizeClasses[i] # 24) }
         IN SizeClasses[CHOOSE i \in fit : \A j \in fit : i <= j]

\* the loop of growslice for a large slice: grow by a quarter (and, from
\* Go 1.18, by 192 more) until the wanted length fits
RECURSIVE GrowQuarter(_, _, _)
GrowQuarter(nc, need, add) ==
    IF nc >= need THEN nc ELSE GrowQuarter(nc + ((nc + add) \div 4), need, add)

\* The runtimes a build of this package can have.  They differ in the test
\* for a small slice (len < 1024, then cap < 1024, from Go 1.18 cap < 256
\* with a smooth step) and in the class of 24 bytes.
GoBuilds ==
    { [rule |-> "len1024", class24 |-> FALSE], [rule |-> "len1024", class24 |-> TRUE],
      [rule |-> "cap1024", class24 |-> TRUE], [rule |-> "cap256", class24 |-> TRUE] }

\* runtime.growslice, before the rounding: the wanted length if it is more
\* than twice the capacity, twice the capacity of a small slice, steps of a
\* quarter otherwise
NewCap(s, k, rule) ==
    LET need == s.len + k
        small == CASE rule = "len1024" -> s.len < 1024
                   [] rule = "cap1024" -> s.cap < 1024
                   [] OTHER -> s.cap < 256
    IN IF need > 2 * s.cap THEN need
       ELSE IF small THEN 2 * s.cap
       ELSE GrowQuarter(s.cap, need, IF rule = "cap256" THEN 768 ELSE 0)

\* The capacity of the array that append allocates for a []byte: what
\* growslice computes, rounded up to the size malloc gives, in each runtime.
GrowCap(s, k, g) ==
    IF Grows(s, k) THEN RoundUpSize(NewCap(s, k, g.rule), g.class24) ELSE s.cap

GrowCaps(s, k) == { GrowCap(s, k, g) : g \in GoBuilds }

\* append(s, elems...), nc being the capacity of the array if it allocates
GoAppend(m, s, elems, nc) ==
    LET k == Len(elems) IN
    IF k = 0 /\ ~Grows(s, k) THEN [mem |-> m, bs |-> s]
    ELSE IF ~Grows(s, k)
    THEN [mem |-> [m EXCEPT ![s.ptr] =
                      SubSeq(@, 1, s.len) \o elems \o SubSeq(@, s.len + k + 1, Len(@))],
          bs  |-> [s EXCEPT !.len = s.len + k]]
    ELSE [mem |-> Append(m, SliceBytes(m, s) \o elems),
          bs  |-> [ptr |-> Len(m) + 1, len |-> s.len + k, cap |-> nc]]

\* s[:n], for 0 <= n <= cap(s)
Reslice(s, n) == [s EXCEPT !.len = n]

----------------------------------------------------------------------------
(* strconv *)

RECURSIVE FormatUint(_)
FormatUint(u) ==
    IF u < 10 THEN <<48 + u>> ELSE FormatUint(u \div 10) \o <<48 + (u % 10)>>

FormatInt(i) == IF i < 0 THEN <<45>> \o FormatUint(-i) ELSE FormatUint(i)

FormatBool(v) == IF v THEN <<116, 114, 117, 101>> ELSE <<102, 97, 108, 115, 101>>

\* float64 values: NaN, the infinities, and the finite ones.  A finite one
\* is written as a decimal, a sign, an integer part, the digits of the
\* fraction and a power of ten, int.frac * 10^e: the float is the one
\* nearest to the decimal, as for a literal of the Go source.
NaN == [class |-> "NaN", neg |-> FALSE, int |-> 0, frac |-> <<>>, e |-> 0]

Inf(sign) == [class |-> "Inf", neg |-> sign < 0, int |-> 0, frac |-> <<>>, e |-> 0]

Scaled(neg, int, frac, e) ==
    [class |-> "finite", neg |-> neg, int |-> int, frac |-> frac, e |-> e]

Finite(neg, int, frac) == Scaled(neg, int, frac, 0)

\* math.IsNaN, math.IsInf
IsNaN(f) == f.class = "NaN"

IsInf(f, sign) == f.class = "Inf" /\ (f.neg <=> sign < 0)

\* strconv/decimal.go: the decimal 0.d * 10^dp, d holding its digits from
\* the most significant one; no zero leads or ends d, and zero has no digit
Dec(d, dp) == [d |-> d, dp |-> dp]

\* the sequence op(lo), ..., op(hi)
Digits(lo, hi, op(_)) == SubSeq([i \in 1..hi |-> op(i)], lo, hi)

\* decimal.go trim: the zeros at the end are no digits
RECURSIVE trim(_)
trim(a) ==
    IF a.d = <<>> THEN Dec(<<>>, 0)
    ELSE IF a.d[Len(a.d)] = 0 THEN trim(Dec(SubSeq(a.d, 1, Len(a.d) - 1), a.dp))
    ELSE a

\* the same at the head, each zero moving the decimal point
RECURSIVE trimHead(_)
trimHead(a) ==
    IF a.d = <<>> THEN Dec(<<>>, 0)
    ELSE IF a.d[1] = 0 THEN trimHead(Dec(Tail(a.d), a.dp - 1))
    ELSE a

\* the digits of an unsigned integer
RECURSIVE UintDigits(_)
UintDigits(u) == IF u < 10 THEN <<u>> ELSE Append(UintDigits(u \div 10), u % 10)

\* decimal.Assign, of the decimal a finite float is written as
Assign(f) ==
    trimHead(trim(Dec(UintDigits(f.int) \o f.frac, Len(UintDigits(f.int)) + f.e)))

\* decimal.Shift(1), times two: a digit takes the carry of the digit after it
Double(a) ==
    LET n == Len(a.d)
        raw(i) == ((IF i > 1 THEN 2 * a.d[i - 1] ELSE 0)
                   + (IF i <= n /\ a.d[i] >= 5 THEN 1 ELSE 0)) % 10
        lead == a.d[1] >= 5
    IN  Dec(Digits(IF lead THEN 1 ELSE 2, IF a.d[n] = 5 THEN n ELSE n + 1, raw),
            IF lead THEN a.dp + 1 ELSE a.dp)

\* decimal.Shift(-1), the half: a digit takes ten from an odd digit before it
Halve(a) ==
    LET n == Len(a.d)
        raw(i) == ((IF i > 1 /\ a.d[i - 1] % 2 = 1 THEN 10 ELSE 0)
                   + (IF i <= n THEN a.d[i] ELSE 0)) \div 2
        lead == a.d[1] > 1
    IN  Dec(Digits(IF lead THEN 1 ELSE 2, IF a.d[n] % 2 = 1 THEN n + 1 ELSE n, raw),
            IF lead THEN a.dp ELSE a.dp - 1)

\* decimal.Shift(k): a * 2^k, the shift done in two parts
RECURSIVE Shift(_, _)
Shift(a, k) ==
    IF a.d = <<>> \/ k = 0 THEN a
    ELSE IF k = 1 THEN Double(a)
    ELSE IF k = -1 THEN Halve(a)
    ELSE LET part == Shift(a, k \div 2)
         IN  IF part.d = <<>> THEN part ELSE Shift(part, k - (k \div 2))

\* a < b, for decimals that are not zero
RECURSIVE LessFrom(_, _, _)
LessFrom(a, b, i) ==
    IF i > Len(a.d) THEN i <= Len(b.d)
    ELSE IF i > Len(b.d) THEN FALSE
    ELSE IF a.d[i] # b.d[i] THEN a.d[i] < b.d[i]
    ELSE LessFrom(a, b, i + 1)

Less(a, b) == IF a.dp # b.dp THEN a.dp < b.dp ELSE LessFrom(a, b, 1)

\* decimal.go shouldRoundUp: half rounds to the even digit
shouldRoundUp(a, nd) ==
    IF nd < 0 \/ nd >= Len(a.d) THEN FALSE
    ELSE IF a.d[nd + 1] = 5 /\ nd + 1 = Len(a.d) THEN nd > 0 /\ a.d[nd] % 2 # 0
    ELSE a.d[nd + 1] >= 5

\* decimal.RoundDown: a cut to nd digits
RoundDown(a, nd) ==
    IF nd < 0 \/ nd >= Len(a.d) THEN a ELSE trim(Dec(SubSeq(a.d, 1, nd), a.dp))

\* the last of the first nd digits that is below nine, 0 when there is none
RECURSIVE LastBelowNine(_, _)
LastBelowNine(d, nd) ==
    IF nd = 0 THEN 0 ELSE IF d[nd] < 9 THEN nd ELSE LastBelowNine(d, nd - 1)

\* decimal.RoundUp: a cut to nd digits and raised by one in the last place
RoundUp(a, nd) ==
    IF nd < 0 \/ nd >= Len(a.d) THEN a
    ELSE LET i == LastBelowNine(a.d, nd)
         IN  IF i = 0 THEN Dec(<<1>>, a.dp + 1)
             ELSE Dec(SubSeq(a.d, 1, i - 1) \o <<a.d[i] + 1>>, a.dp)

\* decimal.Round: a rounded to nd digits
Round(a, nd) ==
    IF nd < 0 \/ nd >= Len(a.d) THEN a
    ELSE IF shouldRoundUp(a, nd) THEN RoundUp(a, nd) ELSE RoundDown(a, nd)

\* decimal.RoundedInteger, as a decimal
RoundedInteger(a) == IF a.dp < 0 THEN Dec(<<>>, 0) ELSE Round(a, a.dp)

\* the digits of an integer decimal down to the units
IntDigits(a) == a.d \o [i \in 1..(a.dp - Len(a.d)) |-> 0]

\* a + 1 for an even integer a, and a - 1 for an integer a > 0
SuccDigits(d, dp) == Dec([d EXCEPT ![Len(d)] = @ + 1], dp)

Succ(a) == SuccDigits(IntDigits(a), a.dp)

RECURSIVE LastAboveZero(_, _)
LastAboveZero(d, n) == IF d[n] > 0 THEN n ELSE LastAboveZero(d, n - 1)

\* the digits d with the j-th one lowered by one and nines after it
Borrow(d, j) == [i \in 1..Len(d) |-> IF i < j THEN d[i] ELSE IF i = j THEN d[i] - 1 ELSE 9]

PredDigits(d, dp) == trimHead(trim(Dec(Borrow(d, LastAboveZero(d, Len(d))), dp)))

Pred(a) == PredDigits(IntDigits(a), a.dp)

\* strconv/ftoa.go: float32info, float64info
float32info == [mantbits |-> 23, expbits |-> 8, bias |-> -127]

float64info == [mantbits |-> 52, expbits |-> 11, bias |-> -1023]

One == Dec(<<1>>, 1)

\* strconv/atof.go powtab: the powers of two that a decimal of so many digits
\* before or after the point can be shifted by
powtab == <<1, 3, 6, 9, 13, 16, 19, 23, 26>>

PowOf(n) == IF n >= Len(powtab) THEN 27 ELSE powtab[n + 1]

\* atof.go floatBits, the two loops: r.d scaled by powers of two into the
\* range from 0.5 to 1, r.exp counting the powers
RECURSIVE ScaleDown(_)
ScaleDown(r) ==
    IF r.d.dp > 0
    THEN ScaleDown([d |-> Shift(r.d, -PowOf(r.d.dp)), exp |-> r.exp + PowOf(r.d.dp)])
    ELSE r

RECURSIVE ScaleUp(_)
ScaleUp(r) ==
    IF r.d.dp < 0 \/ (r.d.dp = 0 /\ r.d.d[1] < 5)
    THEN ScaleUp([d |-> Shift(r.d, PowOf(-r.d.dp)), exp |-> r.exp - PowOf(-r.d.dp)])
    ELSE r

\* floatBits: the range of a float is from 1 to 2, so exp goes down by one;
\* an exponent below the least one, bias + 1, is moved up to it
Denormal(r, flt) ==
    IF r.exp - 1 < flt.bias + 1
    THEN [d |-> Shift(r.d, (r.exp - 1) - (flt.bias + 1)), exp |-> flt.bias + 1]
    ELSE [d |-> r.d, exp |-> r.exp - 1]

\* floatBits, overflow: the infinity, mantissa zero and every exponent bit
\* set
Overflow(flt) == [mant |-> Dec(<<>>, 0), exp |-> 2^flt.expbits - 1 + flt.bias]

\* floatBits: the exponent exp is beyond the greatest one of a finite float
Overflows(exp, flt) == exp - flt.bias >= 2^flt.expbits - 1

\* ftoa.go genericFtoa: the bits are those of an infinity
IsInfBits(b, flt) == b.exp = 2^flt.expbits - 1 + flt.bias

\* floatBits: 1 + mantbits bits are taken out and rounded, half to even,
\* unless the exponent overflows
Extract(r, flt) ==
    IF Overflows(r.exp, flt) THEN Overflow(flt)
    ELSE [mant |-> RoundedInteger(Shift(r.d, 1 + flt.mantbits)), exp |-> r.exp]

\* floatBits: the rounding may have added a bit, which is shifted down, and
\* the exponent that goes up by one may overflow
Carried(b, flt) ==
    IF b.mant = Shift(One, flt.mantbits + 1)
    THEN IF Overflows(b.exp + 1, flt) THEN Overflow(flt)
         ELSE [mant |-> Halve(b.mant), exp |-> b.exp + 1]
    ELSE b

\* atof.go floatBits: the float nearest to the decimal a, as the mantissa
\* mant and the exponent exp of mant * 2^(exp - mantbits); the exponent of a
\* denormal is bias + 1, as ftoa.go has it; a decimal beyond the greatest
\* float gives the infinity, one too small to matter gives zero
floatBits(a, flt) ==
    IF a.d = <<>> THEN [mant |-> a, exp |-> flt.bias + 1]
    ELSE IF a.dp > 310 THEN Overflow(flt)
    ELSE IF a.dp < -330 THEN [mant |-> Dec(<<>>, 0), exp |-> flt.bias + 1]
    ELSE Carried(Extract(Denormal(ScaleUp(ScaleDown([d |-> a, exp |-> 0])), flt), flt), flt)

\* the decimal of the float of mantissa mant and exponent exp
FloatDec(b, flt) == IF b.mant.d = <<>> THEN b.mant ELSE Shift(b.mant, b.exp - flt.mantbits)

\* ftoa.go roundShortest, the walk along the digits of d, lower and upper
RECURSIVE Walk(_, _, _, _, _, _)
Walk(d, lower, upper, inclusive, ui, upperdelta) ==
    LET mi == ui - upper.dp + d.dp IN
    IF mi >= Len(d.d) THEN d
    ELSE LET li == ui - upper.dp + lower.dp
             l == IF li >= 0 /\ li < Len(lower.d) THEN lower.d[li + 1] ELSE 0
             m == IF mi >= 0 THEN d.d[mi + 1] ELSE 0
             u == IF ui < Len(upper.d) THEN upper.d[ui + 1] ELSE 0
             okdown == l # m \/ (inclusive /\ li + 1 = Len(lower.d))
             delta == CASE upperdelta = 0 /\ m + 1 < u -> 2
                        [] upperdelta = 0 /\ m # u -> 1
                        [] upperdelta = 1 /\ (m # 9 \/ u # 0) -> 2
                        [] OTHER -> upperdelta
             okup == delta > 0 /\ (inclusive \/ delta > 1 \/ ui + 1 < Len(upper.d))
         IN  CASE okdown /\ okup -> Round(d, mi + 1)
               [] okdown -> RoundDown(d, mi + 1)
               [] okup -> RoundUp(d, mi + 1)
               [] OTHER -> Walk(d, lower, upper, inclusive, ui + 1, delta)

\* roundShortest: the bound above, halfway to the next float
Upper(mant, exp, flt) == Shift(Succ(Double(mant)), exp - flt.mantbits - 1)

\* roundShortest: the bound below, halfway to the float before, which is
\* nearer by half when mant is the least mantissa of its exponent
LowerBy(mant, exp, flt, n) == Shift(Pred(Shift(mant, n)), exp - flt.mantbits - n)

Lower(mant, exp, flt) ==
    LowerBy(mant, exp, flt,
            IF Less(Shift(One, flt.mantbits), mant) \/ exp = flt.bias + 1 THEN 1 ELSE 2)

\* ftoa.go roundShortest: the shortest decimal that rounds to the float d of
\* mantissa mant and exponent exp, nearest to d among those
roundShortest(d, mant, exp, flt) ==
    IF mant.d = <<>> THEN d
    ELSE IF exp > flt.bias + 1 /\ 332 * (d.dp - Len(d.d)) >= 100 * (exp - flt.mantbits) THEN d
    ELSE Walk(d, Lower(mant, exp, flt), Upper(mant, exp, flt),
              IntDigits(mant)[mant.dp] % 2 = 0, 0, 0)

\* the bits of the float64 of the decimal of f
Float64bits(f) == floatBits(Assign(f), float64info)

\* the value of the digits of an integer
RECURSIVE UintOf(_)
UintOf(d) == IF d = <<>> THEN 0 ELSE 10 * UintOf(SubSeq(d, 1, Len(d) - 1)) + d[Len(d)]

\* the float a decimal writes: a number from 2^31 on is written 0.d * 10^dp
FiniteOf(neg, a) ==
    IF a.dp > 9 /\ ~Less(a, Dec(<<2, 1, 4, 7, 4, 8, 3, 6, 4, 8>>, 10))
    THEN Scaled(neg, 0, a.d, a.dp)
    ELSE Finite(neg,
                IF a.dp <= 0 THEN 0
                ELSE UintOf([i \in 1..a.dp |-> IF i <= Len(a.d) THEN a.d[i] ELSE 0]),
                IF a.dp >= Len(a.d) THEN <<>>
                ELSE Digits(1, Len(a.d) - a.dp,
                            LAMBDA i : IF i + a.dp >= 1 THEN a.d[i + a.dp] ELSE 0))

\* the digits of the shortest decimal that gives back the finite float of
\* bits b
ShortestOf(b, flt) == roundShortest(FloatDec(b, flt), b.mant, b.exp, flt)

\* float32(f) of the float64 of bits b when bitSize is 32: a float64
\* beyond the range of float32 becomes an infinity
BitsOf(b, bitSize) ==
    IF bitSize # 32 THEN b
    ELSE IF IsInfBits(b, float64info) THEN Overflow(float32info)
    ELSE floatBits(FloatDec(b, float64info), float32info)

\* genericFtoa: what stands for the digits when the float is an infinity
Infinite == [d |-> <<>>, dp |-> 0, inf |-> TRUE]

\* genericFtoa: a bitSize other than 32 and 64 panics, whatever the float
IllegalBitSize(bitSize) == bitSize \notin {32, 64}

IllegalBitSizePanic == [panic |-> "strconv: illegal AppendFloat/FormatFloat bitSize"]

\* genericFtoa: Infinite for the infinity, the shortest digits otherwise
ShortestOrInf(b, flt) == IF IsInfBits(b, flt) THEN Infinite ELSE ShortestOf(b, flt)

\* ftoa.go genericFtoa, %f with precision -1: the digits of the shortest
\* decimal that gives back f, f being rounded to a float32 first when
\* bitSize is 32, which makes an infinity of an f beyond the range of
\* float32; a bitSize that is neither 32 nor 64 panics
FtoaShortest(f, bitSize) ==
    IF IllegalBitSize(bitSize) THEN IllegalBitSizePanic
    ELSE ShortestOrInf(BitsOf(Float64bits(f), bitSize),
                       IF bitSize = 32 THEN float32info ELSE float64info)

\* float64(v) of the float32 of bits b: the same number, as the float64 it
\* is
Widened32(neg, b) ==
    IF IsInfBits(b, float32info) THEN Inf(IF neg THEN -1 ELSE 1)
    ELSE FiniteOf(neg, ShortestOf(floatBits(FloatDec(b, float32info), float64info),
                                  float64info))

\* float64(v) of a finite float32 v
Widen(v) == Widened32(v.neg, floatBits(Assign(v), float32info))

\* The finite floats that the specifications below give to the package,
\* 3.14, -0.5, 42, 0.1, 0.2, -0.2, 0.30000000000000004 and 4e38, and the
\* float64 values of the float32 nearest 3.14, 0.1, 0.2 and -0.2
GivenFloats ==
    {Finite(FALSE, 3, <<1, 4>>), Scaled(FALSE, 4, <<>>, 38), Finite(TRUE, 0, <<5>>), Finite(FALSE, 42, <<>>),
     Finite(FALSE, 0, <<1>>), Finite(FALSE, 0, <<2>>), Finite(TRUE, 0, <<2>>),
     Finite(FALSE, 0, <<3, 0, 0, 0, 0, 0, 0, 0, 0, 0, 0, 0, 0, 0, 0, 0, 4>>),
     Finite(FALSE, 3, <<1, 4, 0, 0, 0, 0, 1, 0, 4, 9, 0, 4, 1, 7, 5>>),
     Finite(FALSE, 0, <<1, 0, 0, 0, 0, 0, 0, 0, 1, 4, 9, 0, 1, 1, 6, 1, 2>>),
     Finite(FALSE, 0, <<2, 0, 0, 0, 0, 0, 0, 0, 2, 9, 8, 0, 2, 3, 2, 2, 4>>),
     Finite(TRUE, 0, <<2, 0, 0, 0, 0, 0, 0, 0, 2, 9, 8, 0, 2, 3, 2, 2, 4>>)}

\* what Widen and FtoaShortest make of them, worked out once
Widened == { <<v, Widen(v)>> : v \in GivenFloats }

Shortened ==
    { <<(<<f, bitSize>>), FtoaShortest(f, bitSize)>> : f \in GivenFloats, bitSize \in {32, 64} }

\* what the table has for the key, and other when it has nothing
Recall(table, key, other) ==
    IF \E t \in table : t[1] = key THEN (CHOOSE t \in table : t[1] = key)[2] ELSE other

\* FtoaShortest(f, bitSize)
ShortestDigits(f, bitSize) == Recall(Shortened, <<f, bitSize>>, FtoaShortest(f, bitSize))

\* float64(v) of a float32 v: the same number, written by the shortest
\* decimal that gives the float64 back
Float64Of(v) ==
    IF v.class # "finite" THEN v ELSE Recall(Widened, v, Widen(v))

\* ftoa.go fmtF, %f: the byte sequences that are appended, one append each:
\* the sign, the digits before the decimal point and each zero that fills
\* them up, the point, and each digit of the fraction
fmtF(neg, digs) ==
    LET nd == Len(digs.d)
        m == IF nd > digs.dp THEN digs.dp ELSE nd
        prec == IF nd - digs.dp > 0 THEN nd - digs.dp ELSE 0
    IN  (IF neg THEN <<(<<45>>)>> ELSE <<>>)
        \o (IF digs.dp > 0
            THEN <<[i \in 1..m |-> 48 + digs.d[i]]>> \o [i \in 1..(digs.dp - m) |-> <<48>>]
            ELSE <<(<<48>>)>>)
        \o (IF prec > 0
            THEN <<(<<46>>)>>
                 \o [i \in 1..prec |->
                        <<IF digs.dp + i >= 1 /\ digs.dp + i <= nd
                          THEN 48 + digs.d[digs.dp + i] ELSE 48>>]
            ELSE <<>>)

\* genericFtoa: +Inf or -Inf, in one append
InfPieces(neg) == <<(<<IF neg THEN 45 ELSE 43, 73, 110, 102>>)>>

\* genericFtoa: the appends for the digits digs, or for the infinity
DigitPieces(neg, digs) == IF digs = Infinite THEN InfPieces(neg) ELSE fmtF(neg, digs)

\* ftoa.go genericFtoa: what strconv.AppendFloat(dst, f, 'f', -1, bitSize)
\* appends to dst, append by append; it panics before the first append on
\* a bitSize that is neither 32 nor 64
FloatPieces(f, bitSize) ==
    CASE IllegalBitSize(bitSize) -> IllegalBitSizePanic
      [] f.class = "NaN" -> <<(<<78, 97, 78>>)>>
      [] f.class = "Inf" -> InfPieces(f.neg)
      [] OTHER -> DigitPieces(f.neg, ShortestDigits(f, bitSize))

RECURSIVE Flatten(_)
Flatten(ss) == IF ss = <<>> THEN <<>> ELSE Head(ss) \o Flatten(Tail(ss))

\* strconv.FormatFloat(f, 'f', -1, bitSize), which panics as AppendFloat
\* does
FormatFloat(f, bitSize) ==
    IF IllegalBitSize(bitSize) THEN IllegalBitSizePanic
    ELSE Flatten(FloatPieces(f, bitSize))

----------------------------------------------------------------------------
(* internal/unsafeutil: conversions that reuse the storage *)

\* a string header over the same array as the slice
UnsafeString(s) == [ptr |-> s.ptr, len |-> s.len]

\* the bytes of a string argument, as they are read by append
UnsafeSlice(str) == str

\* the bytes a string header denotes
StringBytes(m, str) == IF str.len = 0 THEN <<>> ELSE SubSeq(m[str.ptr], 1, str.len)

----------------------------------------------------------------------------
(* pool.MapBuffer: struct { bs []byte; p *sync.Pool } *)

\* the object the pool's New function builds
NewMapBuffer(m) ==
    LET r == MakeSlice(m, size) IN [mem |-> r.mem, mb |-> [bs |-> r.bs, p |-> 0]]

WithBs(mb, r) == [mem |-> r.mem, mb |-> [mb EXCEPT !.bs = r.bs]]

MbLen(mb) == mb.bs.len

MbCap(mb) == mb.bs.cap

MbBytes(m, mb) == SliceBytes(m, mb.bs)

MbResetKeepsContent(m, mb) == [mem |-> m, mb |-> mb]

MbResetNil(m, mb) == [mem |-> m, mb |-> [mb EXCEPT !.bs = NilSlice]]

MbReset(m, mb) == [mem |-> m, mb |-> [mb EXCEPT !.bs = Reslice(mb.bs, 0)]]

MbAppendByte(m, mb, v, nc) == WithBs(mb, GoAppend(m, mb.bs, <<v>>, nc))

MbAppendString(m, mb, s, nc) == WithBs(mb, GoAppend(m, mb.bs, UnsafeSlice(s), nc))

MbAppendIntUnsigned(m, mb, i, nc) ==
    WithBs(mb, GoAppend(m, mb.bs, FormatUint(IF i < 0 THEN -i ELSE i), nc))

MbAppendInt(m, mb, i, nc) == WithBs(mb, GoAppend(m, mb.bs, FormatInt(i), nc))

MbAppendUint(m, mb, i, nc) == WithBs(mb, GoAppend(m, mb.bs, FormatUint(i), nc))

MbAppendBool(m, mb, v, nc) == WithBs(mb, GoAppend(m, mb.bs, FormatBool(v), nc))

\* AppendFloat: NaN and the infinities unquoted
\* the appends of strconv.AppendFloat, one after the other, in the runtime g:
\* an append that finds no room moves what is written so far to a new array
RECURSIVE AppendEach(_, _, _, _)
AppendEach(m, s, pieces, g) ==
    IF pieces = <<>> THEN [mem |-> m, bs |-> s]
    ELSE IF Grows(s, Len(Head(pieces)))
    THEN LET r == GoAppend(m, s, Head(pieces), GrowCap(s, Len(Head(pieces)), g))
         IN  AppendEach(r.mem, r.bs, Tail(pieces), g)
    ELSE LET r == GoAppend(m, s, Head(pieces), s.cap)
         IN  AppendEach(r.mem, r.bs, Tail(pieces), g)

\* what a call that did not panic leaves
NoPanic(r) == [mem |-> r.mem, mb |-> r.mb, panic |-> FALSE]

\* strconv.AppendFloat panics on a bitSize that is neither 32 nor 64,
\* before it appends and before mb.bs is assigned
MbAppendFloat(m, mb, f, bitSize, g) ==
    IF IllegalBitSize(bitSize) THEN [mem |-> m, mb |-> mb, panic |-> TRUE]
    ELSE NoPanic(WithBs(mb, AppendEach(m, mb.bs, FloatPieces(f, bitSize), g)))

MbWrite(m, mb, p, nc) == WithBs(mb, GoAppend(m, mb.bs, p, nc))

MbWriteString(m, mb, s, nc) == WithBs(mb, GoAppend(m, mb.bs, UnsafeSlice(s), nc))

MbStringCopy(m, mb) ==
    [mem |-> Append(m, MbBytes(m, mb)), str |-> [ptr |-> Len(m) + 1, len |-> MbLen(mb)]]

MbString(m, mb) == [mem |-> m, str |-> UnsafeString(mb.bs)]

MbTruncateSilent(m, mb, n) ==
    IF n = 0 THEN [mem |-> m, mb |-> MbReset(m, mb).mb, panic |-> FALSE]
    ELSE IF n < 0 \/ n > MbLen(mb) THEN [mem |-> m, mb |-> mb, panic |-> FALSE]
    ELSE [mem |-> m, mb |-> [mb EXCEPT !.bs = Reslice(mb.bs, n)], panic |-> FALSE]

MbTruncateOffByOne(m, mb, n) ==
    IF n = 0 THEN [mem |-> m, mb |-> MbReset(m, mb).mb, panic |-> FALSE]
    ELSE IF n < 0 \/ n > MbLen(mb) THEN [mem |-> m, mb |-> mb, panic |-> TRUE]
    ELSE [mem |-> m, mb |-> [mb EXCEPT !.bs = Reslice(mb.bs, n - 1)], panic |-> FALSE]

MbTruncateDropsStorage(m, mb, n) ==
    IF n = 0 THEN [mem |-> m, mb |-> [mb EXCEPT !.bs = NilSlice], panic |-> FALSE]
    ELSE IF n < 0 \/ n > MbLen(mb) THEN [mem |-> m, mb |-> mb, panic |-> TRUE]
    ELSE [mem |-> m, mb |-> [mb EXCEPT !.bs = Reslice(mb.bs, n)], panic |-> FALSE]

MbTruncate(m, mb, n) ==
    IF n = 0 THEN [mem |-> m, mb |-> MbReset(m, mb).mb, panic |-> FALSE]
    ELSE IF n < 0 \/ n > MbLen(mb) THEN [mem |-> m, mb |-> mb, panic |-> TRUE]
    ELSE [mem |-> m, mb |-> [mb EXCEPT !.bs = Reslice(mb.bs, n)], panic |-> FALSE]

RECURSIVE TrimAllNewlines(_, _)
TrimAllNewlines(m, s) ==
    IF s.len >= 1 /\ m[s.ptr][s.len] = 10 THEN TrimAllNewlines(m, Reslice(s, s.len - 1)) ELSE s

MbTrimNewlineAll(m, mb) == [mem |-> m, mb |-> [mb EXCEPT !.bs = TrimAllNewlines(m, mb.bs)]]

MbTrimNewline(m, mb) ==
    LET i == MbLen(mb) - 1 IN
    IF i >= 0 /\ m[mb.bs.ptr][i + 1] = 10
    THEN [mem |-> m, mb |-> [mb EXCEPT !.bs = Reslice(mb.bs, i)]]
    ELSE [mem |-> m, mb |-> mb]

----------------------------------------------------------------------------
(* sync.Pool *)

\* Pool.Get that leaves the item in the pool
PoolTakePeek(pl, b) == pl

\* Pool.Get: the item it returns is removed from the pool
PoolTake(pl, b) == pl (-) SetToBag({b})

\* Pool.Put
PoolPut(pl, b) == pl (+) SetToBag({b})

----------------------------------------------------------------------------
(* The state of a pool created by NewMapPool and of its callers *)

NoView == [taken |-> FALSE, b |-> 0, str |-> [ptr |-> 0, len |-> 0], snap |-> <<>>, fresh |-> FALSE]

NoLog == [clean |-> TRUE, log |-> <<>>]

\* a buffer as an operation found it: the object and its backing array
Obs(m, mb) == [mb |-> mb, arr |-> IF mb.bs.ptr = 0 THEN <<>> ELSE m[mb.bs.ptr]]

NoObs == [mb |-> [bs |-> NilSlice, p |-> 0], arr |-> <<>>]

ObsBytes(o) == SubSeq(o.arr, 1, o.mb.bs.len)

Done(op, b, n, pre, panic) ==
    [op |-> op, b |-> b, n |-> n, pre |-> pre, panic |-> panic]

\* a caller that has no buffer.  seen is every slice header the buffer of a
\* caller had since the caller's last call returned: the headers a call of
\* this caller may have loaded.
NoBuffer == [pc |-> "none", buf |-> 0, puts |-> 0, seen |-> {}]

\* the object NewMapPool returns is heap[Handle]
Handle == 1

\* NewMapPool: a MapBuffer with no storage of its own, on an empty sync.Pool
NewMapPool == [bs |-> NilSlice, p |-> 1]

InitPool ==
    /\ mem = <<>>
    /\ heap = <<NewMapPool>>
    /\ idle = EmptyBag
    /\ local = [c \in Callers |-> NoBuffer]
    /\ view = [c \in Callers |-> NoView]
    /\ calls = <<NoLog>>
    /\ over = <<FALSE>>
    /\ doublePut = FALSE
    /\ last = Done("NewMapPool", 0, 0, NoObs, FALSE)

\* no encoder has been made
NoEncoders ==
    /\ encs = <<>>
    /\ bufs = <<>>
    /\ elast = [op |-> "none", e |-> 0, arg |-> 0,
                pre |-> [encs |-> <<>>, bufs |-> <<>>],
                err |-> 0, panic |-> FALSE]

\* no stackdriver Encoder has been made
NoStackdriver == sde = <<>> /\ sent = [op |-> "none"]

\* no pair of buffers is being compared
NoTwin == [op |-> "none"]

\* no string is being escaped
NoEsc == [s |-> <<>>, i |-> 0, out |-> <<>>, from |-> 0, mark |-> 0]

Init == InitPool /\ twin = NoTwin /\ esc = NoEsc /\ NoEncoders /\ NoStackdriver

\* what every operation of the pool leaves: the record of what it did, and
\* the encoder untouched
Did(op, b, n, pre, panic) ==
    /\ last' = Done(op, b, n, pre, panic)
    /\ UNCHANGED <<esc, encVars, sdVars, twin>>

Buf(c) == local[c].buf

\* The methods of MapBuffer load mb.bs, work on it and store it, with no
\* lock.  For the only holder of a buffer the header loaded is the one the
\* object has.  When several goroutines hold the same buffer their calls
\* race: a call may have loaded any header the object had since the caller's
\* previous call returned, and stores its result over what the others stored
\* in between.  (The buffers of the pool keep their array and capacity, so a
\* header torn between two stores is one of these headers.)
Loaded(c) == { [heap[Buf(c)] EXCEPT !.bs = h] : h \in local[c].seen }

\* caller c has stored header h in buffer b: every other holder of b may
\* still work on what it loaded before
Stored(c, b, h) ==
    [d \in Callers |->
        IF d = c THEN [local[d] EXCEPT !.seen = {h}]
        ELSE IF local[d].pc \in {"getting", "held"} /\ local[d].buf = b
        THEN [local[d] EXCEPT !.seen = @ \cup {h}]
        ELSE local[d]]

Held(c) == local[c].pc = "held"

\* a caller holds a buffer from the moment Pool.Get gave it until it Puts it
Holding(c) == local[c].pc \in {"getting", "held"}

----------------------------------------------------------------------------
(* Get, first half: buf := mb.p.Get() *)

\* the pool hands out one of its idle items
GetPooled(c) ==
    /\ local[c].pc = "none"
    /\ \E b \in BagToSet(idle) :
          /\ idle' = PoolTake(idle, b)
          /\ local' = [local EXCEPT ![c] = [pc |-> "getting", buf |-> b, puts |-> 0,
                                            seen |-> {heap[b].bs}]]
    /\ Did("Pool.Get", 0, 0, NoObs, FALSE)
    /\ UNCHANGED <<mem, heap, view, calls, over, doublePut>>

\* the pool has nothing for this caller and calls New
GetNew(c) ==
    /\ local[c].pc = "none"
    /\ Len(heap) < MaxBufs + 1
    /\ LET r == NewMapBuffer(mem) IN
          /\ mem' = r.mem
          /\ heap' = Append(heap, r.mb)
          /\ calls' = Append(calls, NoLog)
          /\ over' = Append(over, FALSE)
          /\ local' = [local EXCEPT ![c] = [pc |-> "getting", buf |-> Len(heap) + 1, puts |-> 0,
                                            seen |-> {r.mb.bs}]]
    /\ Did("Pool.New", 0, 0, NoObs, FALSE)
    /\ UNCHANGED <<idle, view, doublePut>>

(* Get, second half: buf.Reset(); buf.p = mb.p; return buf *)
GetReset(c) ==
    /\ local[c].pc = "getting"
    /\ \E mb \in Loaded(c) :
          LET b == Buf(c)
              r == MbReset(mem, mb) IN
          /\ mem' = r.mem
          /\ heap' = [heap EXCEPT ![b] = [r.mb EXCEPT !.p = heap[Handle].p]]
          /\ calls' = [calls EXCEPT ![b] = NoLog]
          /\ Did("Get", b, 0, Obs(mem, mb), FALSE)
          /\ local' = [Stored(c, b, r.mb.bs) EXCEPT ![c].pc = "held"]
    /\ UNCHANGED <<idle, view, over, doublePut>>

(* The encoder of this repository writes into the object NewMapPool gave
   it, without a Get. *)
UseHandle(c) ==
    /\ local[c].pc = "none"
    /\ local' = [local EXCEPT ![c] = [pc |-> "held", buf |-> Handle, puts |-> 0,
                                      seen |-> {heap[Handle].bs}]]
    /\ Did("UseHandle", 0, 0, NoObs, FALSE)
    /\ UNCHANGED <<mem, heap, idle, view, calls, over, doublePut>>

(* Put: mb.p.Put(b), of a buffer that came from Get.  Nothing stops a
   caller from putting a reference it has put before. *)
Put(c) ==
    /\ local[c].pc \in {"held", "put"}
    /\ Buf(c) # Handle
    /\ BagCardinality(idle) < MaxIdle
    /\ idle' = PoolPut(idle, Buf(c))
    /\ local' = [local EXCEPT ![c] = [pc |-> "put", buf |-> @.buf, puts |-> 1, seen |-> {}]]
    /\ doublePut' = (doublePut \/ local[c].puts = 1)
    /\ Did("Put", 0, 0, NoObs, FALSE)
    /\ UNCHANGED <<mem, heap, view, calls, over>>

(* "Callers must not retain references to the Buffer after calling Free":
   the caller drops the reference and the strings it took *)
Forget(c) ==
    /\ local[c].pc = "put" \/ (Held(c) /\ Buf(c) = Handle)
    /\ local' = [local EXCEPT ![c] = NoBuffer]
    /\ view' = [view EXCEPT ![c] = NoView]
    /\ Did("Forget", 0, 0, NoObs, FALSE)
    /\ UNCHANGED <<mem, heap, idle, calls, over, doublePut>>

----------------------------------------------------------------------------
(* The methods of a buffer a caller holds *)

\* an append that went through: mb is what the method loaded, r what it
\* left.  calls follows the appends since the last Reset for as long as
\* they are calls of one holder with integers, booleans, bytes and strings.
Appended(c, mb, op, kind, val, r) ==
    LET b == Buf(c) IN
    /\ mem' = r.mem
    /\ heap' = [heap EXCEPT ![b] = r.mb]
    /\ calls' = [calls EXCEPT ![b] =
                    IF mb # heap[b] \/ kind = "float" THEN [clean |-> FALSE, log |-> <<>>]
                    ELSE IF @.clean
                    THEN [@ EXCEPT !.log = Append(@, [kind |-> kind, val |-> val])]
                    ELSE @]
    /\ over' = [over EXCEPT ![b] = @ \/ MbLen(r.mb) > (IF b = Handle THEN 0 ELSE size)]
    /\ view' = [d \in Callers |->
                    IF view[d].b = b /\ r.mb.bs.ptr # heap[b].bs.ptr
                    THEN [view[d] EXCEPT !.fresh = FALSE] ELSE view[d]]
    /\ local' = Stored(c, b, r.mb.bs)
    /\ Did(op, b, 0, NoObs, FALSE)
    /\ UNCHANGED <<idle, doublePut>>

\* a call that panicked before it stored anything: mb is what the method
\* loaded, and the buffer is as it was
Panicked(c, mb, op) ==
    /\ local' = [local EXCEPT ![c].seen = {heap[Buf(c)].bs}]
    /\ Did(op, Buf(c), 0, Obs(mem, mb), TRUE)
    /\ UNCHANGED <<mem, heap, idle, view, calls, over, doublePut>>

\* what a call that may panic leaves
AppendedOrPanicked(c, mb, op, kind, val, r) ==
    /\ Len(r.mem) <= MaxBufs + MaxGrow
    /\ IF r.panic THEN Panicked(c, mb, op) ELSE Appended(c, mb, op, kind, val, r)

\* the model follows up to MaxGrow reallocations by append
Fits(mb, k) == Grows(mb.bs, k) => Len(mem) < MaxBufs + MaxGrow

\* the caller holds a buffer with room for k more bytes within max
Room(c, k, max) == Held(c) /\ \E mb \in Loaded(c) : MbLen(mb) + k <= max

\* the call of caller c leaves content within max
Within(c, max) == MbLen(heap'[Buf(c)]) <= max

AppendByte(c, v) ==
    /\ Held(c)
    /\ \E mb \in Loaded(c) :
          /\ Fits(mb, 1)
          /\ \E nc \in GrowCaps(mb.bs, 1) :
                Appended(c, mb, "AppendByte", "byte", v, MbAppendByte(mem, mb, v, nc))

AppendString(c, s) ==
    /\ Held(c)
    /\ \E mb \in Loaded(c) :
          /\ Fits(mb, Len(s))
          /\ \E nc \in GrowCaps(mb.bs, Len(s)) :
                Appended(c, mb, "AppendString", "string", s, MbAppendString(mem, mb, s, nc))

AppendInt(c, i) ==
    /\ Held(c)
    /\ \E mb \in Loaded(c) :
          /\ Fits(mb, Len(FormatInt(i)))
          /\ \E nc \in GrowCaps(mb.bs, Len(FormatInt(i))) :
                Appended(c, mb, "AppendInt", "int", i, MbAppendInt(mem, mb, i, nc))

AppendUint(c, i) ==
    /\ Held(c)
    /\ \E mb \in Loaded(c) :
          /\ Fits(mb, Len(FormatUint(i)))
          /\ \E nc \in GrowCaps(mb.bs, Len(FormatUint(i))) :
                Appended(c, mb, "AppendUint", "uint", i, MbAppendUint(mem, mb, i, nc))

AppendBool(c, v) ==
    /\ Held(c)
    /\ \E mb \in Loaded(c) :
          /\ Fits(mb, Len(FormatBool(v)))
          /\ \E nc \in GrowCaps(mb.bs, Len(FormatBool(v))) :
                Appended(c, mb, "AppendBool", "bool", v, MbAppendBool(mem, mb, v, nc))

AppendFloat(c, f, bitSize) ==
    /\ Held(c)
    /\ \E mb \in Loaded(c), g \in GoBuilds :
          AppendedOrPanicked(c, mb, "AppendFloat", "float", f,
                             MbAppendFloat(mem, mb, f, bitSize, g))

Write(c, p) ==
    /\ Held(c)
    /\ \E mb \in Loaded(c) :
          /\ Fits(mb, Len(p))
          /\ \E nc \in GrowCaps(mb.bs, Len(p)) :
                Appended(c, mb, "Write", "bytes", p, MbWrite(mem, mb, p, nc))

WriteString(c, s) ==
    /\ Held(c)
    /\ \E mb \in Loaded(c) :
          /\ Fits(mb, Len(s))
          /\ \E nc \in GrowCaps(mb.bs, Len(s)) :
                Appended(c, mb, "WriteString", "string", s, MbWriteString(mem, mb, s, nc))

Reset(c) ==
    /\ Held(c)
    /\ \E mb \in Loaded(c) :
          LET b == Buf(c)
              r == MbReset(mem, mb) IN
          /\ mem' = r.mem
          /\ heap' = [heap EXCEPT ![b] = r.mb]
          /\ calls' = [calls EXCEPT ![b] = NoLog]
          /\ local' = Stored(c, b, r.mb.bs)
          /\ Did("Reset", b, 0, Obs(mem, mb), FALSE)
    /\ UNCHANGED <<idle, view, over, doublePut>>

Truncate(c, n) ==
    /\ Held(c)
    /\ \E mb \in Loaded(c) :
          LET b == Buf(c)
              r == MbTruncate(mem, mb, n) IN
          /\ mem' = r.mem
          /\ heap' = [heap EXCEPT ![b] = IF r.panic THEN @ ELSE r.mb]
          /\ calls' = [calls EXCEPT ![b] =
                          IF r.panic THEN @
                          ELSE IF n = 0 THEN NoLog
                          ELSE IF r.mb = heap[b] THEN @
                          ELSE [clean |-> FALSE, log |-> <<>>]]
          /\ local' = IF r.panic THEN [local EXCEPT ![c].seen = {heap[b].bs}]
                      ELSE Stored(c, b, r.mb.bs)
          /\ Did("Truncate", b, n, Obs(mem, mb), r.panic)
    /\ UNCHANGED <<idle, view, over, doublePut>>

TrimNewline(c) ==
    /\ Held(c)
    /\ \E mb \in Loaded(c) :
          LET b == Buf(c)
              r == MbTrimNewline(mem, mb)
              trims == r.mb # mb IN
          /\ mem' = r.mem
          /\ heap' = [heap EXCEPT ![b] = IF trims THEN r.mb ELSE @]
          /\ calls' = [calls EXCEPT ![b] =
                          IF ~trims THEN @
                          ELSE [clean |-> FALSE, log |-> <<>>]]
          /\ local' = IF trims THEN Stored(c, b, r.mb.bs)
                      ELSE [local EXCEPT ![c].seen = {heap[b].bs}]
          /\ Did("TrimNewline", b, 0, Obs(mem, mb), FALSE)
    /\ UNCHANGED <<idle, view, over, doublePut>>

\* s := buf.String(), kept by the caller
String(c) ==
    /\ Held(c)
    /\ \E mb \in Loaded(c) :
          LET b == Buf(c)
              r == MbString(mem, mb) IN
          /\ mem' = r.mem
          /\ view' = [view EXCEPT ![c] =
                         [taken |-> TRUE, b |-> b, str |-> r.str,
                          snap |-> StringBytes(r.mem, r.str), fresh |-> TRUE]]
          /\ local' = [local EXCEPT ![c].seen = {heap[b].bs}]
          /\ Did("String", b, 0, NoObs, FALSE)
    /\ UNCHANGED <<heap, idle, calls, over, doublePut>>

----------------------------------------------------------------------------
(* Spec: several callers on one pool *)

Next ==
    \E c \in Callers :
        \/ GetPooled(c)
        \/ GetNew(c)
        \/ GetReset(c)
        \/ Put(c)
        \/ Forget(c)
        \/ (Room(c, 1, MaxPoolLen) /\ AppendByte(c, 97) /\ Within(c, MaxPoolLen))
        \/ Reset(c)

Spec == Init /\ [][Next]_vars

----------------------------------------------------------------------------
(* SpecBuf: one caller, one buffer, checked out and returned again and
   again, cut and trimmed in between *)

ByteInputs == {97, 10}

\* AppendFloat(0.30000000000000004, 32), which writes 0.3, and
\* AppendFloat(NaN, 64)
BufFloatCalls ==
    {[f |-> Finite(FALSE, 0, <<3, 0, 0, 0, 0, 0, 0, 0, 0, 0, 0, 0, 0, 0, 0, 0, 4>>),
      bitSize |-> 32],
     [f |-> NaN, bitSize |-> 64]}

\* AppendFloat(0.10000000149011612, 64): nineteen bytes, appended in
\* eighteen appends; AppendFloat(4e38, 32), of a float64 beyond the range of
\* float32, which writes +Inf
LongFloatCalls ==
    {[f |-> Finite(FALSE, 0, <<1, 0, 0, 0, 0, 0, 0, 0, 1, 4, 9, 0, 1, 1, 6, 1, 2>>),
      bitSize |-> 64],
     [f |-> Scaled(FALSE, 4, <<>>, 38), bitSize |-> 32]}

\* AppendFloat(3.14, 16): strconv knows no float of 16 bits
IllegalFloatCalls == {[f |-> Finite(FALSE, 3, <<1, 4>>), bitSize |-> 16]}

NextBuf ==
    \E c \in {1} :
        \/ GetPooled(c)
        \/ (idle = EmptyBag /\ heap[Handle].bs = NilSlice /\ GetNew(c))
        \/ GetReset(c)
        \/ (Len(heap) = 1 /\ UseHandle(c))
        \/ Put(c)
        \/ Forget(c)
        \/ \E v \in ByteInputs : Room(c, 1, MaxBufLen) /\ AppendByte(c, v)
        \/ \E a \in BufFloatCalls :
              Room(c, Len(FormatFloat(a.f, a.bitSize)), MaxBufLen)
              /\ AppendFloat(c, a.f, a.bitSize)
        \/ \E a \in LongFloatCalls : Room(c, 0, 0) /\ AppendFloat(c, a.f, a.bitSize)
        \/ \E a \in IllegalFloatCalls : AppendFloat(c, a.f, a.bitSize)
        \/ Reset(c)
        \/ \E n \in -1..(MaxBufLen + 1) : Truncate(c, n)
        \/ TrimNewline(c)

SpecBuf == Init /\ [][NextBuf]_vars

----------------------------------------------------------------------------
(* SpecView: a caller that keeps the string it got from String() *)

NextView ==
    \E c \in {1} :
        \/ (idle = EmptyBag /\ heap[Handle].bs = NilSlice /\ GetNew(c))
        \/ GetReset(c)
        \/ (Len(heap) = 1 /\ UseHandle(c))
        \/ Forget(c)
        \/ \E v \in ByteInputs : Room(c, 1, MaxBufLen) /\ AppendByte(c, v)
        \/ Reset(c)
        \/ String(c)

SpecView == Init /\ [][NextView]_vars

----------------------------------------------------------------------------
(* SpecText: every append method, on one buffer *)

StringInputs == {<<97, 98>>}

IntInputs == {-1, 12}

UintInputs == {7}

BytesInputs == {<<10>>}

\* 3.14, as in TestMapPoolWrites, and NaN
BufFloatInputs == {Finite(FALSE, 3, <<1, 4>>), NaN}

NextText ==
    \E c \in {1} :
        \/ (idle = EmptyBag /\ GetNew(c))
        \/ GetReset(c)
        \/ Reset(c)
        \/ (Room(c, 1, MaxLen) /\ AppendByte(c, 97))
        \/ \E s \in StringInputs : Room(c, Len(s), MaxLen) /\ AppendString(c, s)
        \/ \E i \in IntInputs : Room(c, Len(FormatInt(i)), MaxLen) /\ AppendInt(c, i)
        \/ \E i \in UintInputs : Room(c, Len(FormatUint(i)), MaxLen) /\ AppendUint(c, i)
        \/ \E v \in BOOLEAN : Room(c, Len(FormatBool(v)), MaxLen) /\ AppendBool(c, v)
        \/ \E p \in BytesInputs : Room(c, Len(p), MaxLen) /\ Write(c, p)
        \/ \E s \in StringInputs : Room(c, Len(s), MaxLen) /\ WriteString(c, s)

SpecText == Init /\ [][NextText]_vars

----------------------------------------------------------------------------
(* Part 2: the JSON string escaper of the stackdriver encoder.             *)
(*                                                                         *)
(* esc.s is the string given to safeAddString, esc.i the loop index,       *)
(* esc.out what the calls appended to enc.buf.  esc.from and esc.mark are  *)
(* the index and the length of the output before the last iteration, so    *)
(* that what one iteration consumed and wrote can be read off the state.   *)

MaxChunks == 2

\* hex = "0123456789abcdef"
hex == <<48, 49, 50, 51, 52, 53, 54, 55, 56, 57, 97, 98, 99, 100, 101, 102>>

\* utf8.RuneSelf
RuneSelf == 128

\* utf8.RuneError
RuneError == 65533

\* enc.buf.AppendByte and enc.buf.AppendString, on the content of enc.buf
BufAppendByte(out, b) == out \o <<b>>

BufAppendString(out, s) == out \o s

\* tryAddRuneSelf with the two hex digits in the wrong order
TryAddRuneSelfSwapped(out, b) ==
    IF b >= RuneSelf THEN [ok |-> FALSE, out |-> out]
    ELSE IF 32 <= b /\ b # 92 /\ b # 34
    THEN [ok |-> TRUE, out |-> BufAppendByte(out, b)]
    ELSE [ok |-> TRUE, out |->
        CASE b \in {92, 34} -> BufAppendByte(BufAppendByte(out, 92), b)
          [] b = 10 -> BufAppendByte(BufAppendByte(out, 92), 110)
          [] b = 13 -> BufAppendByte(BufAppendByte(out, 92), 114)
          [] b = 9  -> BufAppendByte(BufAppendByte(out, 92), 116)
          [] OTHER  ->
              BufAppendByte(
                  BufAppendByte(BufAppendString(out, <<92, 117, 48, 48>>),
                                hex[(b % 16) + 1]),
                  hex[(b \div 16) + 1])]

\* tryAddRuneSelf: [ok |-> the returned bool, out |-> enc.buf afterwards]
TryAddRuneSelf(out, b) ==
    IF b >= RuneSelf THEN [ok |-> FALSE, out |-> out]
    ELSE IF 32 <= b /\ b # 92 /\ b # 34
    THEN [ok |-> TRUE, out |-> BufAppendByte(out, b)]
    ELSE [ok |-> TRUE, out |->
        CASE b \in {92, 34} -> BufAppendByte(BufAppendByte(out, 92), b)
          [] b = 10 -> BufAppendByte(BufAppendByte(out, 92), 110)
          [] b = 13 -> BufAppendByte(BufAppendByte(out, 92), 114)
          [] b = 9  -> BufAppendByte(BufAppendByte(out, 92), 116)
          [] OTHER  ->
              BufAppendByte(
                  BufAppendByte(BufAppendString(out, <<92, 117, 48, 48>>),
                                hex[(b \div 16) + 1]),
                  hex[(b % 16) + 1])]

\* tryAddRuneError without the test of the size
TryAddRuneErrorAnySize(out, r, sz) ==
    IF r = RuneError
    THEN [ok |-> TRUE, out |-> BufAppendString(out, <<92, 117, 102, 102, 102, 100>>)]
    ELSE [ok |-> FALSE, out |-> out]

\* tryAddRuneError
TryAddRuneError(out, r, sz) ==
    IF r = RuneError /\ sz = 1
    THEN [ok |-> TRUE, out |-> BufAppendString(out, <<92, 117, 102, 102, 102, 100>>)]
    ELSE [ok |-> FALSE, out |-> out]

\* utf8.DecodeRuneInString: the length the first byte announces, 0 for a byte
\* that starts no sequence
FirstSize(p0) ==
    IF p0 < 128 THEN 1
    ELSE IF p0 < 194 THEN 0
    ELSE IF p0 < 224 THEN 2
    ELSE IF p0 < 240 THEN 3
    ELSE IF p0 < 245 THEN 4
    ELSE 0

\* utf8.DecodeRuneInString: the range the second byte must lie in
AcceptRange(p0) ==
    CASE p0 = 224 -> [lo |-> 160, hi |-> 191]
      [] p0 = 237 -> [lo |-> 128, hi |-> 159]
      [] p0 = 240 -> [lo |-> 144, hi |-> 191]
      [] p0 = 244 -> [lo |-> 128, hi |-> 143]
      [] OTHER    -> [lo |-> 128, hi |-> 191]

\* a continuation byte
IsCont(b) == 128 <= b /\ b <= 191

\* utf8.DecodeRuneInString(p): [r |-> the rune, size |-> its width]
DecodeRuneInString(p) ==
    LET n == Len(p)
        bad == [r |-> RuneError, size |-> 1]
    IN  IF n < 1 THEN [r |-> RuneError, size |-> 0]
        ELSE LET p0 == p[1]
                 sz == FirstSize(p0)
                 accept == AcceptRange(p0)
             IN  IF sz = 1 THEN [r |-> p0, size |-> 1]
                 ELSE IF sz = 0 THEN bad
                 ELSE IF n < sz THEN bad
                 ELSE IF p[2] < accept.lo \/ accept.hi < p[2] THEN bad
                 ELSE IF sz <= 2
                 THEN [r |-> (p0 % 32) * 64 + (p[2] % 64), size |-> 2]
                 ELSE IF ~IsCont(p[3]) THEN bad
                 ELSE IF sz <= 3
                 THEN [r |-> (p0 % 16) * 4096 + (p[2] % 64) * 64 + (p[3] % 64),
                       size |-> 3]
                 ELSE IF ~IsCont(p[4]) THEN bad
                 ELSE [r |-> (p0 % 8) * 262144 + (p[2] % 64) * 4096
                               + (p[3] % 64) * 64 + (p[4] % 64),
                       size |-> 4]

\* the strings escaped: up to MaxChunks of these pieces, one after the other
Chunks ==
    {<<32>>, <<97>>, <<117>>, <<48>>, <<126>>, <<127>>,
     <<34>>, <<92>>, <<10>>, <<13>>, <<9>>, <<0>>, <<1>>, <<27>>, <<31>>,
     <<195, 169>>, <<226, 130, 172>>, <<240, 159, 152, 128>>, <<239, 191, 189>>,
     <<128>>, <<255>>, <<192>>, <<195>>, <<226, 130>>, <<237, 160, 128>>,
     <<224, 128, 128>>, <<244, 144, 128, 128>>}

RECURSIVE Concats(_)
Concats(k) ==
    IF k = 0 THEN {<<>>}
    ELSE LET shorter == Concats(k - 1)
         IN  shorter \cup {s \o c : s \in shorter, c \in Chunks}

EscInputs == Concats(MaxChunks)

\* safeAddString(s) is entered
EscStart(s) == [s |-> s, i |-> 0, out |-> <<>>, from |-> 0, mark |-> 0]

InitEsc == InitPool /\ twin = NoTwin /\ NoEncoders /\ NoStackdriver /\ \E s \in EscInputs : esc = EscStart(s)

\* one iteration of the loop of safeAddString
EscStep ==
    /\ esc.i < Len(esc.s)
    /\ LET s == esc.s
           i == esc.i
           self == TryAddRuneSelf(esc.out, s[i + 1])
           d == DecodeRuneInString(SubSeq(s, i + 1, Len(s)))
           err == TryAddRuneError(esc.out, d.r, d.size)
           step(j, o) == [s |-> s, i |-> j, out |-> o,
                          from |-> i, mark |-> Len(esc.out)]
       IN  esc' = IF self.ok THEN step(i + 1, self.out)
                  ELSE IF err.ok THEN step(i + 1, err.out)
                  ELSE step(i + d.size,
                            BufAppendString(esc.out, SubSeq(s, i + 1, i + d.size)))
    /\ UNCHANGED <<poolVars, encVars, sdVars, twin>>

NextEsc == EscStep

SpecEsc == InitEsc /\ [][NextEsc]_vars

\* the loop is not suspended: safeAddString runs on to its return
SpecEscFair == InitEsc /\ [][NextEsc]_vars /\ WF_vars(EscStep)

----------------------------------------------------------------------------
(* Part 3: the stackdriverEncoder, an incremental JSON encoder.            *)
(*                                                                         *)
(* encs[e] is an encoder object, bufs[b] the bytes of the buffer b.  An    *)
(* encoder refers to its buffers by index, so that two encoders holding    *)
(* the same pool.Pooler write to the same bytes.  The operations are       *)
(* operators on a world w = [encs, bufs], so that a marshal callback can   *)
(* call back into the encoder it was given.                                *)

MaxEncLen == 4

\* a nil *zapcore.EncoderConfig
NilCfg == [nil |-> TRUE]

World == [encs |-> encs, bufs |-> bufs]

\* enc.buf.Bytes()
EBuf(w, e) == w.bufs[w.encs[e].buf]

OnBuf(w, e, content) == [w EXCEPT !.bufs[w.encs[e].buf] = content]

EncAppendByte(w, e, b) == OnBuf(w, e, BufAppendByte(EBuf(w, e), b))

EncAppendBytes(w, e, s) == OnBuf(w, e, BufAppendString(EBuf(w, e), s))

\* newStackdriverEncoder: the encoder object, writing to buffer b
NewStackdriverEncoder(cfg, spaced, b) ==
    [buf |-> b, cfg |-> cfg, spaced |-> spaced, openNamespaces |-> 0,
     reflectBuf |-> 0]

\* addElementSeparator that writes nothing
AddElementSeparatorNever(w, e) == w

\* addElementSeparator without the look at the last byte
AddElementSeparatorAlways(w, e) ==
    IF EBuf(w, e) = <<>> THEN w
    ELSE LET w1 == EncAppendByte(w, e, 44)
         IN  IF w.encs[e].spaced THEN EncAppendByte(w1, e, 32) ELSE w1

\* addElementSeparator
AddElementSeparator(w, e) ==
    LET out == EBuf(w, e)
        lastIdx == Len(out) - 1
    IN  IF lastIdx < 0 THEN w
        ELSE IF out[lastIdx + 1] \in {123, 91, 58, 44, 32} THEN w
        ELSE LET w1 == EncAppendByte(w, e, 44)
             IN  IF w.encs[e].spaced THEN EncAppendByte(w1, e, 32) ELSE w1

\* safeAddString, the whole loop
RECURSIVE SafeAddStringFrom(_, _, _)
SafeAddStringFrom(out, s, i) ==
    IF i >= Len(s) THEN out
    ELSE LET self == TryAddRuneSelf(out, s[i + 1])
             d == DecodeRuneInString(SubSeq(s, i + 1, Len(s)))
             err == TryAddRuneError(out, d.r, d.size)
         IN  IF self.ok THEN SafeAddStringFrom(self.out, s, i + 1)
             ELSE IF err.ok THEN SafeAddStringFrom(err.out, s, i + 1)
             ELSE SafeAddStringFrom(
                      BufAppendString(out, SubSeq(s, i + 1, i + d.size)),
                      s, i + d.size)

SafeAddString(w, e, s) == OnBuf(w, e, SafeAddStringFrom(EBuf(w, e), s, 0))

\* addKey that first drops what the buffer holds from a member with the same
\* key on
AddKeyDeduplicating(w, e, key) ==
    LET out == EBuf(w, e)
        member == <<34>> \o key \o <<34, 58>>
        at == {k \in 1..Len(out) :
                   k + Len(member) - 1 <= Len(out)
                   /\ SubSeq(out, k, k + Len(member) - 1) = member}
        w0 == IF at = {} THEN w
              ELSE OnBuf(w, e, SubSeq(out, 1, (CHOOSE k \in at : TRUE) - 1))
        w1 == EncAppendByte(AddElementSeparator(w0, e), e, 34)
        w2 == EncAppendByte(EncAppendByte(SafeAddString(w1, e, key), e, 34), e, 58)
    IN  IF w.encs[e].spaced THEN EncAppendByte(w2, e, 32) ELSE w2

\* addKey
AddKey(w, e, key) ==
    LET w1 == EncAppendByte(AddElementSeparator(w, e), e, 34)
        w2 == EncAppendByte(EncAppendByte(SafeAddString(w1, e, key), e, 34), e, 58)
    IN  IF w.encs[e].spaced THEN EncAppendByte(w2, e, 32) ELSE w2

\* AppendInt64, AppendUint64, AppendBool, AppendString
EncAppendInt64(w, e, val) ==
    EncAppendBytes(AddElementSeparator(w, e), e, FormatInt(val))

EncAppendUint64(w, e, val) ==
    EncAppendBytes(AddElementSeparator(w, e), e, FormatUint(val))

EncAppendBool(w, e, val) ==
    EncAppendBytes(AddElementSeparator(w, e), e, FormatBool(val))

EncAppendString(w, e, val) ==
    LET w1 == EncAppendByte(AddElementSeparator(w, e), e, 34)
    IN  EncAppendByte(SafeAddString(w1, e, val), e, 34)

\* AddInt64, AddString
EncAddInt64(w, e, key, val) == EncAppendInt64(AddKey(w, e, key), e, val)

EncAddString(w, e, key, val) == EncAppendString(AddKey(w, e, key), e, val)

\* MapBuffer.AppendFloat, on the content
BufAppendFloat(out, f, bitSize) ==
    IF IllegalBitSize(bitSize) THEN IllegalBitSizePanic ELSE out \o FormatFloat(f, bitSize)

\* enc.buf.AppendFloat(val, bitSize)
EncBufAppendFloat(w, e, val, bitSize) == OnBuf(w, e, BufAppendFloat(EBuf(w, e), val, bitSize))

\* appendFloat without the test for NaN and the infinities
appendFloatUnchecked(w, e, val, bitSize) ==
    EncBufAppendFloat(AddElementSeparator(w, e), e, val, bitSize)

\* appendFloat
appendFloat(w, e, val, bitSize) ==
    LET w1 == AddElementSeparator(w, e)
    IN  CASE IsNaN(val) -> EncAppendBytes(w1, e, <<34, 78, 97, 78, 34>>)
          [] IsInf(val, 1) -> EncAppendBytes(w1, e, <<34, 43, 73, 110, 102, 34>>)
          [] IsInf(val, -1) -> EncAppendBytes(w1, e, <<34, 45, 73, 110, 102, 34>>)
          [] OTHER -> EncBufAppendFloat(w1, e, val, bitSize)

\* AppendFloat64, AppendFloat32
EncAppendFloat64(w, e, v) == appendFloat(w, e, v, 64)

EncAppendFloat32(w, e, v) == appendFloat(w, e, Float64Of(v), 32)

\* a user-supplied EncodeDuration or EncodeTime: the calls it makes on the
\* encoder it is given, for a value of n nanoseconds
CallbackKinds == {"noop", "nanos", "string"}

RunCallback(w, e, kind, n) ==
    CASE kind = "noop"   -> w
      [] kind = "nanos"  -> EncAppendInt64(w, e, n)
      [] kind = "string" -> EncAppendString(w, e, FormatInt(n))

Cfgs ==
    {[nil |-> FALSE, EncodeDuration |-> d, EncodeTime |-> t] :
        d \in CallbackKinds, t \in CallbackKinds}

\* AppendDuration without the comparison of the lengths
AppendDurationAlways(w, e, val) ==
    IF w.encs[e].cfg.nil THEN [w |-> w, panic |-> TRUE]
    ELSE LET w1 == RunCallback(w, e, w.encs[e].cfg.EncodeDuration, val)
         IN  [w |-> EncAppendInt64(w1, e, val), panic |-> FALSE]

\* AppendDuration; a nil EncoderConfig has no EncodeDuration to call
EncAppendDuration(w, e, val) ==
    IF w.encs[e].cfg.nil THEN [w |-> w, panic |-> TRUE]
    ELSE LET cur == Len(EBuf(w, e))
             w1 == RunCallback(w, e, w.encs[e].cfg.EncodeDuration, val)
         IN  [w |-> IF cur = Len(EBuf(w1, e)) THEN EncAppendInt64(w1, e, val)
                    ELSE w1,
              panic |-> FALSE]

\* AppendTime; val is the time's UnixNano()
EncAppendTime(w, e, val) ==
    IF w.encs[e].cfg.nil THEN [w |-> w, panic |-> TRUE]
    ELSE LET cur == Len(EBuf(w, e))
             w1 == RunCallback(w, e, w.encs[e].cfg.EncodeTime, val)
         IN  [w |-> IF cur = Len(EBuf(w1, e)) THEN EncAppendInt64(w1, e, val)
                    ELSE w1,
              panic |-> FALSE]

\* resetReflectBuf
ResetReflectBuf(w, e) ==
    IF w.encs[e].reflectBuf = 0
    THEN [encs |-> [w.encs EXCEPT ![e].reflectBuf = Len(w.bufs) + 1],
          bufs |-> Append(w.bufs, <<>>)]
    ELSE [w EXCEPT !.bufs[w.encs[e].reflectBuf] = <<>>]

\* enc.reflectEnc.Encode(obj): the JSON text of obj and a line feed go to
\* reflectBuf, or nothing does and the error is returned
JsonEncode(w, e, obj) ==
    IF obj.ok
    THEN [w |-> [w EXCEPT !.bufs[w.encs[e].reflectBuf] = @ \o obj.json \o <<10>>],
          err |-> 0]
    ELSE [w |-> w, err |-> obj.err]

\* MapBuffer.TrimNewline, on the content
BufTrimNewline(out) ==
    IF Len(out) > 0 /\ out[Len(out)] = 10 THEN SubSeq(out, 1, Len(out) - 1)
    ELSE out

ReflectTrimNewline(w, e) ==
    [w EXCEPT !.bufs[w.encs[e].reflectBuf] = BufTrimNewline(@)]

\* AddReflected writing the key before it knows that Encode succeeded
AddReflectedKeyFirst(w, e, key, obj) ==
    LET r == JsonEncode(AddKey(ResetReflectBuf(w, e), e, key), e, obj)
    IN  IF r.err # 0 THEN r
        ELSE LET w2 == ReflectTrimNewline(r.w, e)
             IN  [w |-> EncAppendBytes(w2, e, w2.bufs[w2.encs[e].reflectBuf]),
                  err |-> 0]

\* AddReflected
EncAddReflected(w, e, key, obj) ==
    LET r == JsonEncode(ResetReflectBuf(w, e), e, obj)
    IN  IF r.err # 0 THEN r
        ELSE LET w2 == AddKey(ReflectTrimNewline(r.w, e), e, key)
             IN  [w |-> EncAppendBytes(w2, e, w2.bufs[w2.encs[e].reflectBuf]),
                  err |-> 0]

\* AppendReflected
EncAppendReflected(w, e, obj) ==
    LET r == JsonEncode(ResetReflectBuf(w, e), e, obj)
    IN  IF r.err # 0 THEN r
        ELSE LET w2 == AddElementSeparator(ReflectTrimNewline(r.w, e), e)
             IN  [w |-> EncAppendBytes(w2, e, w2.bufs[w2.encs[e].reflectBuf]),
                  err |-> 0]

\* truncate
EncTruncate(w, e) == OnBuf(w, e, <<>>)

----------------------------------------------------------------------------
(* The encoder's methods as actions *)

\* the call op(arg) on encoder e took the world to w and returned err
EncDid(op, e, arg, w, err, panic) ==
    /\ encs' = w.encs
    /\ bufs' = w.bufs
    /\ elast' = [op |-> op, e |-> e, arg |-> arg, pre |-> World,
                 err |-> err, panic |-> panic]
    /\ UNCHANGED <<poolVars, esc, sdVars, twin>>

EncRoom(e) == e \in DOMAIN encs /\ Len(EBuf(World, e)) <= MaxEncLen

FloatInputs ==
    {NaN, Inf(1), Inf(-1),
     Finite(FALSE, 3, <<1, 4>>), Finite(TRUE, 0, <<5>>), Finite(FALSE, 42, <<>>)}

DurationInputs == {-3, 12}

TimeInputs == {7}

KeyInputs == {<<107>>}

ReflectInputs ==
    {[ok |-> TRUE, json |-> <<49>>, err |-> 0],
     [ok |-> TRUE, json |-> <<34, 97, 34>>, err |-> 0],
     [ok |-> FALSE, json |-> <<>>, err |-> 1]}

AppendFloat64(e, v) ==
    EncRoom(e) /\ EncDid("AppendFloat64", e, v, EncAppendFloat64(World, e, v), 0, FALSE)

AppendFloat32(e, v) ==
    EncRoom(e) /\ EncDid("AppendFloat32", e, v, EncAppendFloat32(World, e, v), 0, FALSE)

AppendDuration(e, val) ==
    /\ EncRoom(e)
    /\ LET r == EncAppendDuration(World, e, val)
       IN  EncDid("AppendDuration", e, val, r.w, 0, r.panic)

AppendTime(e, val) ==
    /\ EncRoom(e)
    /\ LET r == EncAppendTime(World, e, val)
       IN  EncDid("AppendTime", e, val, r.w, 0, r.panic)

AddReflected(e, key, obj) ==
    /\ EncRoom(e)
    /\ LET r == EncAddReflected(World, e, key, obj)
       IN  EncDid("AddReflected", e, obj, r.w, r.err, FALSE)

AppendReflected(e, obj) ==
    /\ EncRoom(e)
    /\ LET r == EncAppendReflected(World, e, obj)
       IN  EncDid("AppendReflected", e, obj, r.w, r.err, FALSE)

AddInt64(e, key, val) ==
    EncRoom(e) /\ EncDid("AddInt64", e, val, EncAddInt64(World, e, key, val), 0, FALSE)

Truncate0(e) ==
    /\ e \in DOMAIN encs
    /\ EncDid("truncate", e, 0, EncTruncate(World, e), 0, FALSE)

\* no call has been made on the encoder
NoCall(op) ==
    [op |-> op, e |-> 0, arg |-> 0, pre |-> [encs |-> <<>>, bufs |-> <<>>],
     err |-> 0, panic |-> FALSE]

\* newStackdriverEncoder(cfg, ..., spaced), or newEncoder() with no config
InitEnc ==
    /\ InitPool
    /\ twin = NoTwin
    /\ esc = NoEsc
    /\ NoStackdriver
    /\ \E cfg \in Cfgs \cup {NilCfg}, spaced \in BOOLEAN :
           /\ cfg.nil => ~spaced
           /\ encs = <<NewStackdriverEncoder(cfg, spaced, 1)>>
    /\ bufs = <<<<>>>>
    /\ elast = NoCall("newStackdriverEncoder")

NextEnc ==
    \E e \in {1} :
        \/ \E v \in FloatInputs : AppendFloat64(e, v)
        \/ \E v \in FloatInputs : AppendFloat32(e, v)
        \/ \E d \in DurationInputs : AppendDuration(e, d)
        \/ \E t \in TimeInputs : AppendTime(e, t)
        \/ \E k \in KeyInputs, obj \in ReflectInputs : AddReflected(e, k, obj)
        \/ \E obj \in ReflectInputs : AppendReflected(e, obj)
        \/ \E k \in KeyInputs : AddInt64(e, k, 1)
        \/ Truncate0(e)

SpecEnc == InitEnc /\ [][NextEnc]_vars

----------------------------------------------------------------------------
(* Objects and arrays: the marshal callback is given the encoder *)

MaxDepth == 1

\* one call a marshal callback makes on the encoder
Call(op, key, v, m) == [op |-> op, key |-> key, v |-> v, m |-> m]

\* a marshaler: the calls its MarshalLogObject / MarshalLogArray makes, in
\* order, and the error it returns after them (0 is nil)
Marshaler(cs, err) == [calls |-> cs, err |-> err]

NoMarshaler == Marshaler(<<>>, 0)

RECURSIVE EncAppendObject(_, _, _)
RECURSIVE EncAppendArray(_, _, _)
RECURSIVE EncAddObject(_, _, _, _)
RECURSIVE EncAddArray(_, _, _, _)
RECURSIVE EncCall(_, _, _)
RECURSIVE RunCalls(_, _, _)

\* what a callback does after a call returned r: it returns the error at
\* once, or goes on with the calls cs
ThenCalls(r, e, cs) == IF r.err # 0 THEN r ELSE RunCalls(r.w, e, cs)

\* the calls of a callback, up to the first that returns an error
RunCalls(w, e, cs) ==
    IF cs = <<>> THEN [w |-> w, err |-> 0]
    ELSE ThenCalls(EncCall(w, e, Head(cs)), e, Tail(cs))

\* the return of a callback whose calls returned r and whose own result is err
Returned(r, err) == IF r.err # 0 THEN r ELSE [w |-> r.w, err |-> err]

\* obj.MarshalLogObject(enc), arr.MarshalLogArray(enc)
Marshal(w, e, m) == Returned(RunCalls(w, e, m.calls), m.err)

EncCall(w, e, c) ==
    CASE c.op = "AddInt64" -> [w |-> EncAddInt64(w, e, c.key, c.v), err |-> 0]
      [] c.op = "AppendInt64" -> [w |-> EncAppendInt64(w, e, c.v), err |-> 0]
      [] c.op = "AddObject" -> EncAddObject(w, e, c.key, c.m)
      [] c.op = "AddArray" -> EncAddArray(w, e, c.key, c.m)
      [] c.op = "AppendObject" -> EncAppendObject(w, e, c.m)
      [] c.op = "AppendArray" -> EncAppendArray(w, e, c.m)

\* enc.buf.AppendByte(b); return err, after a callback that returned r
Closed(r, e, b) == [w |-> EncAppendByte(r.w, e, b), err |-> r.err]

\* AppendObject returning on the error before it closes the object
AppendObjectLeavesOpen(w, e, obj) ==
    Returned(Marshal(EncAppendByte(AddElementSeparator(w, e), e, 123), e, obj), 0)

\* AppendObject
EncAppendObject(w, e, obj) ==
    Closed(Marshal(EncAppendByte(AddElementSeparator(w, e), e, 123), e, obj), e, 125)

\* AppendArray
EncAppendArray(w, e, arr) ==
    Closed(Marshal(EncAppendByte(AddElementSeparator(w, e), e, 91), e, arr), e, 93)

\* AddObject, AddArray
EncAddObject(w, e, key, obj) == EncAppendObject(AddKey(w, e, key), e, obj)

EncAddArray(w, e, key, arr) == EncAppendArray(AddKey(w, e, key), e, arr)

\* the marshalers given to the encoder: nested to MaxDepth, returning nil
\* or an error, before or after writing a member
ObjectMember == Call("AddInt64", <<107>>, 1, NoMarshaler)

ArrayElement == Call("AppendInt64", <<>>, 1, NoMarshaler)

RECURSIVE ObjectMarshalers(_)
RECURSIVE ArrayMarshalers(_)

ObjectMarshalers(d) ==
    IF d = 0
    THEN {Marshaler(<<>>, 0), Marshaler(<<ObjectMember>>, 0),
          Marshaler(<<ObjectMember>>, 1), Marshaler(<<>>, 2)}
    ELSE ObjectMarshalers(d - 1)
         \cup {Marshaler(<<ObjectMember, Call("AddObject", <<111>>, 0, m),
                           ObjectMember>>, 0) : m \in ObjectMarshalers(d - 1)}
         \cup {Marshaler(<<Call("AddArray", <<97>>, 0, m)>>, 0) :
                   m \in ArrayMarshalers(d - 1)}

ArrayMarshalers(d) ==
    IF d = 0
    THEN {Marshaler(<<>>, 0), Marshaler(<<ArrayElement>>, 0),
          Marshaler(<<ArrayElement>>, 1), Marshaler(<<>>, 2)}
    ELSE ArrayMarshalers(d - 1)
         \cup {Marshaler(<<ArrayElement, Call("AppendArray", <<>>, 0, m),
                           ArrayElement>>, 0) : m \in ArrayMarshalers(d - 1)}
         \cup {Marshaler(<<Call("AppendObject", <<>>, 0, m)>>, 0) :
                   m \in ObjectMarshalers(d - 1)}

AddObject(e, key, obj) ==
    /\ EncRoom(e)
    /\ LET r == EncAddObject(World, e, key, obj)
       IN  EncDid("AddObject", e, obj, r.w, r.err, FALSE)

AddArray(e, key, arr) ==
    /\ EncRoom(e)
    /\ LET r == EncAddArray(World, e, key, arr)
       IN  EncDid("AddArray", e, arr, r.w, r.err, FALSE)

AppendObject(e, obj) ==
    /\ EncRoom(e)
    /\ LET r == EncAppendObject(World, e, obj)
       IN  EncDid("AppendObject", e, obj, r.w, r.err, FALSE)

AppendArray(e, arr) ==
    /\ EncRoom(e)
    /\ LET r == EncAppendArray(World, e, arr)
       IN  EncDid("AppendArray", e, arr, r.w, r.err, FALSE)

\* the marshalers given to the encoder
ObjectMarshalerInputs == ObjectMarshalers(MaxDepth)

ArrayMarshalerInputs == ArrayMarshalers(MaxDepth)

NextMarshal ==
    \E e \in {1} :
        \/ \E k \in KeyInputs, m \in ObjectMarshalerInputs : AddObject(e, k, m)
        \/ \E k \in KeyInputs, m \in ArrayMarshalerInputs : AddArray(e, k, m)
        \/ \E m \in ObjectMarshalerInputs : AppendObject(e, m)
        \/ \E m \in ArrayMarshalerInputs : AppendArray(e, m)
        \/ Truncate0(e)

\* the marshaling calls never read the EncoderConfig: one configured encoder
\* (spaced or not) and the one of newEncoder are enough
InitMarshal ==
    /\ InitEnc
    /\ encs[1].cfg \in {NilCfg, [nil |-> FALSE, EncodeDuration |-> "nanos",
                                 EncodeTime |-> "nanos"]}

SpecMarshal == InitMarshal /\ [][NextMarshal]_vars

----------------------------------------------------------------------------
(* Clone and namespaces *)

MaxEncs == 2

MaxOpen == 2

\* OpenNamespace
EncOpenNamespace(w, e, key) ==
    LET w1 == EncAppendByte(AddKey(w, e, key), e, 123)
    IN  [w1 EXCEPT !.encs[e].openNamespaces = @ + 1]

\* Clone: a new encoder object with the logger and the buffer of enc; the
\* buffer made by the first statement is dropped
EncClone(w, e) ==
    [w EXCEPT !.encs = Append(@, [buf |-> w.encs[e].buf, cfg |-> NilCfg,
                                  spaced |-> FALSE, openNamespaces |-> 0,
                                  reflectBuf |-> 0])]

OpenNamespace(e, key) ==
    /\ EncRoom(e)
    /\ encs[e].openNamespaces < MaxOpen
    /\ EncDid("OpenNamespace", e, key, EncOpenNamespace(World, e, key), 0, FALSE)

AddString(e, key, val) ==
    /\ EncRoom(e)
    /\ EncDid("AddString", e, val, EncAddString(World, e, key, val), 0, FALSE)

Clone(e) ==
    /\ e \in DOMAIN encs
    /\ Len(encs) < MaxEncs
    /\ EncDid("Clone", e, 0, EncClone(World, e), 0, FALSE)

\* Put: enc.buf = pool.NewMapPool().  The encoder goes on with a new, empty
\* buffer; the one it had stays with the encoders that share it.
EncPut(w, e) ==
    [encs |-> [w.encs EXCEPT ![e].buf = Len(w.bufs) + 1],
     bufs |-> Append(w.bufs, <<>>)]

\* the model follows up to MaxEncs buffers
EncoderPut(e) ==
    /\ e \in DOMAIN encs
    /\ Len(bufs) < MaxEncs
    /\ EncDid("Put", e, 0, EncPut(World, e), 0, FALSE)

NextClone ==
    \E e \in 1..MaxEncs :
        \/ Clone(e)
        \/ \E k \in KeyInputs : AddInt64(e, k, 1)
        \/ \E k \in KeyInputs : OpenNamespace(e, k)
        \/ \E k \in KeyInputs, v \in KeyInputs : AddString(e, k, v)
        \/ Truncate0(e)
        \/ EncoderPut(e)

SpecClone == InitEnc /\ [][NextClone]_vars

----------------------------------------------------------------------------
(* The encoder as a writer of JSON members: the calls a field list or a    *)
(* marshaler makes on it, one after the other                              *)

MaxJsonLen == 6

\* the methods that forward to another, those of the floats, the complex
\* numbers, the durations, the times and the binaries, and the Append
\* methods called on the encoder itself, are followed on a buffer of up to
\* MaxShortLen bytes, of an encoder that has no namespace open and has not
\* encoded by reflection
MaxShortLen == 1

\* safeAddByteString, the whole loop; utf8.DecodeRune reads a []byte as
\* utf8.DecodeRuneInString reads a string, buf.Write appends the bytes
BufWrite(out, p) == out \o p

DecodeRune(p) == DecodeRuneInString(p)

\* safeAddByteString that copies a byte it cannot decode
RECURSIVE SafeAddByteStringRaw(_, _, _)
SafeAddByteStringRaw(out, s, i) ==
    IF i >= Len(s) THEN out
    ELSE LET self == TryAddRuneSelf(out, s[i + 1])
             d == DecodeRune(SubSeq(s, i + 1, Len(s)))
         IN  IF self.ok THEN SafeAddByteStringRaw(self.out, s, i + 1)
             ELSE SafeAddByteStringRaw(
                      BufWrite(out, SubSeq(s, i + 1, i + d.size)), s, i + d.size)

RECURSIVE SafeAddByteStringFrom(_, _, _)
SafeAddByteStringFrom(out, s, i) ==
    IF i >= Len(s) THEN out
    ELSE LET self == TryAddRuneSelf(out, s[i + 1])
             d == DecodeRune(SubSeq(s, i + 1, Len(s)))
             err == TryAddRuneError(out, d.r, d.size)
         IN  IF self.ok THEN SafeAddByteStringFrom(self.out, s, i + 1)
             ELSE IF err.ok THEN SafeAddByteStringFrom(err.out, s, i + 1)
             ELSE SafeAddByteStringFrom(
                      BufWrite(out, SubSeq(s, i + 1, i + d.size)), s, i + d.size)

SafeAddByteString(w, e, s) == OnBuf(w, e, SafeAddByteStringFrom(EBuf(w, e), s, 0))

\* AppendByteString, AddByteString
EncAppendByteString(w, e, val) ==
    LET w1 == EncAppendByte(AddElementSeparator(w, e), e, 34)
    IN  EncAppendByte(SafeAddByteString(w1, e, val), e, 34)

EncAddByteString(w, e, key, val) == EncAppendByteString(AddKey(w, e, key), e, val)

\* AddBool
EncAddBool(w, e, key, val) == EncAppendBool(AddKey(w, e, key), e, val)

\* closeOpenNamespaces: one '}' for each open namespace; the counter stays
RECURSIVE Braces(_)
Braces(n) == IF n <= 0 THEN <<>> ELSE <<125>> \o Braces(n - 1)

\* closeOpenNamespaces with a loop that runs once more
CloseOpenNamespacesOneMore(w, e) ==
    EncAppendBytes(w, e, Braces(w.encs[e].openNamespaces + 1))

EncCloseOpenNamespaces(w, e) == EncAppendBytes(w, e, Braces(w.encs[e].openNamespaces))

\* AddUint64
EncAddUint64(w, e, key, val) == EncAppendUint64(AddKey(w, e, key), e, val)

\* AddFloat64
EncAddFloat64(w, e, key, val) == EncAppendFloat64(AddKey(w, e, key), e, val)

\* a complex128, and complex128(v) of a complex64 v
Complex(re, im) == [re |-> re, im |-> im]

Complex128Of(v) == Complex(Float64Of(v.re), Float64Of(v.im))

\* AppendComplex128, AddComplex128: the parts go through MapBuffer.AppendFloat,
\* NaN and the infinities as strconv writes them
EncAppendComplex128(w, e, val) ==
    EncAppendByte(
        EncAppendByte(
            EncBufAppendFloat(
                EncAppendByte(
                    EncBufAppendFloat(
                        EncAppendByte(AddElementSeparator(w, e), e, 34), e, val.re, 64),
                    e, 43),
                e, val.im, 64),
            e, 105),
        e, 34)

EncAddComplex128(w, e, key, val) == EncAppendComplex128(AddKey(w, e, key), e, val)

\* AddDuration, AddTime: the key is written before the EncoderConfig is read
EncAddDuration(w, e, key, val) == EncAppendDuration(AddKey(w, e, key), e, val)

EncAddTime(w, e, key, val) == EncAppendTime(AddKey(w, e, key), e, val)

\* base64.StdEncoding.EncodeToString: A-Z a-z 0-9 + /, padded with '='
Base64Char(i) ==
    IF i < 26 THEN 65 + i
    ELSE IF i < 52 THEN 97 + (i - 26)
    ELSE IF i < 62 THEN 48 + (i - 52)
    ELSE IF i = 62 THEN 43 ELSE 47

RECURSIVE EncodeToString(_)
EncodeToString(p) ==
    IF Len(p) = 0 THEN <<>>
    ELSE IF Len(p) = 1
    THEN <<Base64Char(p[1] \div 4), Base64Char((p[1] % 4) * 16), 61, 61>>
    ELSE IF Len(p) = 2
    THEN <<Base64Char(p[1] \div 4), Base64Char((p[1] % 4) * 16 + (p[2] \div 16)),
           Base64Char((p[2] % 16) * 4), 61>>
    ELSE <<Base64Char(p[1] \div 4), Base64Char((p[1] % 4) * 16 + (p[2] \div 16)),
           Base64Char((p[2] % 16) * 4 + (p[3] \div 64)), Base64Char(p[3] % 64)>>
         \o EncodeToString(SubSeq(p, 4, Len(p)))

\* AddBinary
EncAddBinary(w, e, key, val) == EncAddString(w, e, key, EncodeToString(val))

\* the methods that only convert their argument and call another
IntForwarders == {"AddInt", "AddInt32", "AddInt16", "AddInt8"}

UintForwarders == {"AddUint", "AddUint32", "AddUint16", "AddUint8", "AddUintptr"}

AppendIntForwarders == {"AppendInt", "AppendInt32", "AppendInt16", "AppendInt8"}

AppendUintForwarders ==
    {"AppendUint", "AppendUint32", "AppendUint16", "AppendUint8", "AppendUintptr"}

\* the method c.op of the encoder, called with the arguments of c
EncInvoke(w, e, c) ==
    CASE c.op = "AddString" -> [w |-> EncAddString(w, e, c.key, c.v), err |-> 0]
      [] c.op = "AddBool" -> [w |-> EncAddBool(w, e, c.key, c.v), err |-> 0]
      [] c.op = "AddByteString" -> [w |-> EncAddByteString(w, e, c.key, c.v), err |-> 0]
      [] c.op = "AddBinary" -> [w |-> EncAddBinary(w, e, c.key, c.v), err |-> 0]
      [] c.op \in IntForwarders -> [w |-> EncAddInt64(w, e, c.key, c.v), err |-> 0]
      [] c.op \in UintForwarders \cup {"AddUint64"} ->
            [w |-> EncAddUint64(w, e, c.key, c.v), err |-> 0]
      [] c.op \in {"AddFloat64", "AddFloat32"} ->
            [w |-> EncAddFloat64(w, e, c.key,
                                 IF c.op = "AddFloat32" THEN Float64Of(c.v) ELSE c.v),
             err |-> 0]
      [] c.op \in {"AddComplex128", "AddComplex64"} ->
            [w |-> EncAddComplex128(w, e, c.key,
                                    IF c.op = "AddComplex64" THEN Complex128Of(c.v) ELSE c.v),
             err |-> 0]
      [] c.op = "AddDuration" -> [w |-> EncAddDuration(w, e, c.key, c.v).w, err |-> 0]
      [] c.op = "AddTime" -> [w |-> EncAddTime(w, e, c.key, c.v).w, err |-> 0]
      [] c.op = "OpenNamespace" -> [w |-> EncOpenNamespace(w, e, c.key), err |-> 0]
      [] c.op = "AddReflected" -> EncAddReflected(w, e, c.key, c.v)
      [] c.op = "AppendBool" -> [w |-> EncAppendBool(w, e, c.v), err |-> 0]
      [] c.op = "AppendByteString" -> [w |-> EncAppendByteString(w, e, c.v), err |-> 0]
      [] c.op = "AppendString" -> [w |-> EncAppendString(w, e, c.v), err |-> 0]
      [] c.op \in AppendIntForwarders -> [w |-> EncAppendInt64(w, e, c.v), err |-> 0]
      [] c.op \in AppendUintForwarders \cup {"AppendUint64"} ->
            [w |-> EncAppendUint64(w, e, c.v), err |-> 0]
      [] c.op = "AppendFloat64" -> [w |-> EncAppendFloat64(w, e, c.v), err |-> 0]
      [] c.op = "AppendFloat32" -> [w |-> EncAppendFloat32(w, e, c.v), err |-> 0]
      [] c.op \in {"AppendComplex128", "AppendComplex64"} ->
            [w |-> EncAppendComplex128(w, e,
                                       IF c.op = "AppendComplex64" THEN Complex128Of(c.v)
                                       ELSE c.v),
             err |-> 0]
      [] c.op = "AppendDuration" -> [w |-> EncAppendDuration(w, e, c.v).w, err |-> 0]
      [] c.op = "AppendTime" -> [w |-> EncAppendTime(w, e, c.v).w, err |-> 0]
      [] c.op = "AppendReflected" -> EncAppendReflected(w, e, c.v)
      [] OTHER -> EncCall(w, e, c)

\* AppendDuration and AppendTime call a function of the EncoderConfig, which
\* the encoder of a Clone does not have
InvokePanics(w, e, c) ==
    c.op \in {"AddDuration", "AddTime", "AppendDuration", "AppendTime"} /\ w.encs[e].cfg.nil

\* the byte slices given to AddByteString: a control character, a rune of
\* two bytes, a rune cut short, and bytes that start no rune
ByteStringInputs == {<<118>>, <<10>>, <<195, 169>>, <<195>>, <<226, 130>>, <<128>>}

JsonRoom(e) == e \in DOMAIN encs /\ Len(EBuf(World, e)) <= MaxJsonLen

ShortRoom(e) ==
    /\ e \in DOMAIN encs
    /\ Len(EBuf(World, e)) <= MaxShortLen
    /\ encs[e].openNamespaces = 0
    /\ encs[e].reflectBuf = 0

\* the call c of encoder e has returned r
Invoked(e, c, r) == EncDid(c.op, e, c, r.w, r.err, InvokePanics(World, e, c))

Invoke(e, c) ==
    /\ JsonRoom(e)
    /\ c.op = "OpenNamespace" => encs[e].openNamespaces < MaxOpen
    /\ Invoked(e, c, EncInvoke(World, e, c))

CloseOpenNamespaces(e) ==
    /\ e \in DOMAIN encs
    /\ Len(EBuf(World, e)) <= 3 * MaxJsonLen
    /\ encs[e].openNamespaces > 0
    /\ EncDid("closeOpenNamespaces", e, 0, EncCloseOpenNamespaces(World, e), 0, FALSE)

\* the marshalers and the reflected values given to the encoder here: an
\* empty one, members or elements, nesting, and an error after a member
ObjectInputs ==
    {Marshaler(<<>>, 0), Marshaler(<<ObjectMember>>, 1),
     Marshaler(<<ObjectMember, Call("AddObject", <<111>>, 0,
                                    Marshaler(<<ObjectMember>>, 0)),
                 ObjectMember>>, 0),
     Marshaler(<<Call("AddArray", <<97>>, 0,
                      Marshaler(<<ArrayElement, ArrayElement>>, 0))>>, 0)}

ArrayInputs ==
    {Marshaler(<<>>, 0), Marshaler(<<ArrayElement>>, 1),
     Marshaler(<<ArrayElement, Call("AppendArray", <<>>, 0,
                                    Marshaler(<<ArrayElement>>, 0)),
                 ArrayElement>>, 0),
     Marshaler(<<Call("AppendObject", <<>>, 0, Marshaler(<<ObjectMember>>, 0)),
                 Call("AppendObject", <<>>, 0, Marshaler(<<>>, 0))>>, 0)}

JsonReflectInputs == {obj \in ReflectInputs : obj.json # <<49>>}

\* a new encoder, writing the members of an entry: its buffer is empty or
\* holds the brace that opens the entry's object.  It is the encoder of
\* newStackdriverEncoder, with a configuration, or the one of New, newEncoder
\* and Clone, which has none.
InitJson ==
    /\ InitPool
    /\ twin = NoTwin
    /\ esc = NoEsc
    /\ NoStackdriver
    /\ \E cfg \in {[nil |-> FALSE, EncodeDuration |-> "nanos", EncodeTime |-> "nanos"],
                   NilCfg},
          spaced \in BOOLEAN :
           /\ cfg.nil => ~spaced
           /\ encs = <<NewStackdriverEncoder(cfg, spaced, 1)>>
    /\ bufs \in {<<<<>>>>, <<<<123>>>>}
    /\ elast = NoCall("newStackdriverEncoder")

\* the calls AddInt64("k", 1), AddString("k", "v"), AddBool("\"", true) and
\* OpenNamespace("ns")
IntMember == Call("AddInt64", <<107>>, 1, NoMarshaler)

StringMember == Call("AddString", <<107>>, <<118>>, NoMarshaler)

BoolMember == Call("AddBool", <<34>>, TRUE, NoMarshaler)

Namespace == Call("OpenNamespace", <<110, 115>>, 0, NoMarshaler)

\* the calls of AddByteString, AddReflected, AddObject and AddArray with
\* the key "k"
ByteStringMembers ==
    {Call("AddByteString", <<107>>, s, NoMarshaler) : s \in ByteStringInputs}

ReflectedMembers ==
    {Call("AddReflected", <<107>>, obj, NoMarshaler) : obj \in JsonReflectInputs}

ObjectMembers == {Call("AddObject", <<107>>, 0, m) : m \in ObjectInputs}

ArrayMembers == {Call("AddArray", <<107>>, 0, m) : m \in ArrayInputs}

\* the calls of the other Add methods with the key "k": the integer 1,
\* -0.2 and NaN, 0.1+0.2i and NaN-Inf i, 1 nanosecond, no byte, "h" and "hi!"
IntMembers == {Call(op, <<107>>, 1, NoMarshaler) : op \in IntForwarders}

UintMembers ==
    {Call(op, <<107>>, 1, NoMarshaler) : op \in UintForwarders \cup {"AddUint64"}}

JsonFloatInputs == {Finite(TRUE, 0, <<2>>), NaN}

FloatMembers ==
    {Call(op, <<107>>, f, NoMarshaler) :
        op \in {"AddFloat64", "AddFloat32"}, f \in JsonFloatInputs}

ComplexInputs ==
    {Complex(Finite(FALSE, 0, <<1>>), Finite(FALSE, 0, <<2>>)), Complex(NaN, Inf(-1))}

ComplexMembers ==
    {Call(op, <<107>>, z, NoMarshaler) :
        op \in {"AddComplex128", "AddComplex64"}, z \in ComplexInputs}

TimeMembers == {Call(op, <<107>>, 1, NoMarshaler) : op \in {"AddDuration", "AddTime"}}

BinaryInputs == {<<>>, <<104>>, <<104, 105, 33>>}

BinaryMembers == {Call("AddBinary", <<107>>, p, NoMarshaler) : p \in BinaryInputs}

\* the Append methods called on the encoder itself, but for those that are
\* called so in SpecEnc and SpecMarshal
BoolElement == Call("AppendBool", <<>>, TRUE, NoMarshaler)

StringElements ==
    {Call(op, <<>>, <<118>>, NoMarshaler) : op \in {"AppendString", "AppendByteString"}}

IntElements ==
    {Call(op, <<>>, 1, NoMarshaler) : op \in AppendIntForwarders \cup {"AppendInt64"}}

UintElements ==
    {Call(op, <<>>, 1, NoMarshaler) : op \in AppendUintForwarders \cup {"AppendUint64"}}

ComplexElements ==
    {Call(op, <<>>, z, NoMarshaler) :
        op \in {"AppendComplex128", "AppendComplex64"}, z \in ComplexInputs}

JsonCallSets ==
    <<{IntMember}, {StringMember}, {BoolMember}, {Namespace}, ByteStringMembers,
      ReflectedMembers, ObjectMembers, ArrayMembers>>

ShortCallSets ==
    <<IntMembers, UintMembers, FloatMembers, ComplexMembers, TimeMembers,
      BinaryMembers, {BoolElement}, StringElements, IntElements, UintElements,
      ComplexElements>>

NextJson ==
    \E e \in {1} :
        \/ \E i \in DOMAIN JsonCallSets : \E c \in JsonCallSets[i] : Invoke(e, c)
        \/ \E i \in DOMAIN ShortCallSets : \E c \in ShortCallSets[i] :
              ShortRoom(e) /\ Invoke(e, c)
        \/ CloseOpenNamespaces(e)
        \/ Truncate0(e)

SpecJson == InitJson /\ [][NextJson]_vars

----------------------------------------------------------------------------
(* Part 4: package stackdriver, the Encoder that wraps a JSON encoder *)

\* zapcore.Level is an int8
Levels == -128..127

DebugLevel == -1

InfoLevel == 0

WarnLevel == 1

ErrorLevel == 2

DPanicLevel == 3

PanicLevel == 4

FatalLevel == 5

\* parseLevel forgetting the severity of d-panic
ParseLevelNoCritical(l) ==
    CASE l = DebugLevel -> "Debug"
      [] l = InfoLevel -> "Info"
      [] l = WarnLevel -> "Warning"
      [] l = ErrorLevel -> "Error"
      [] l \in {DPanicLevel, PanicLevel} -> "Alert"
      [] l = FatalLevel -> "Emergency"
      [] OTHER -> "Default"

\* parseLevel; a severity is named as in package logging
ParseLevel(l) ==
    CASE l = DebugLevel -> "Debug"
      [] l = InfoLevel -> "Info"
      [] l = WarnLevel -> "Warning"
      [] l = ErrorLevel -> "Error"
      [] l = DPanicLevel -> "Critical"
      [] l = PanicLevel -> "Alert"
      [] l = FatalLevel -> "Emergency"
      [] OTHER -> "Default"

\* parseLevel(l) is called
ParseLevelOf(l) ==
    /\ sent' = [op |-> "parseLevel", level |-> l, severity |-> ParseLevel(l)]
    /\ UNCHANGED <<poolVars, esc, encVars, sde, twin>>

NextLevel == \E l \in Levels : ParseLevelOf(l)

SpecLevel == Init /\ [][NextLevel]_vars

----------------------------------------------------------------------------
(* EncodeEntry of the stackdriver Encoder.  The repository holds two       *)
(* versions of it: the one of stackdriver/stackdriver.go, and an earlier   *)
(* one (src/unnamed/part_001); sde[i].version says which one Encoder i is. *)

MaxFields == 2

keyContext == "context"

keyContextHTTPRequest == "context.httpRequest"

keyContextUser == "context.user"

keyContextReportLocation == "context.reportLocation"

\* the values of fields and of the members of a context
Nil == [t |-> "nil"]

Str(x) == [t |-> "string", v |-> x]

HTTPRequest(x) == [t |-> "HTTPRequest", v |-> x]

\* a field of type zapcore.ErrorType: the error whose text is x
Err(x) == [t |-> "error", v |-> x]

ReportLocation(file, line) ==
    [t |-> "ReportLocation", FilePath |-> file, LineNumber |-> line]

LogContext(user, req, loc) ==
    [t |-> "LogContext", User |-> user, HTTPRequest |-> req, ReportLocation |-> loc]

Field(key, val) == [Key |-> key, val |-> val]

\* LogContext.IsEmpty
IsEmpty(lc) == lc.User = "" /\ lc.HTTPRequest = Nil /\ lc.ReportLocation = Nil

\* Encoder.cloneCtx; LogContext.Clone copies the members
CloneCtx(e) ==
    IF e.ctx = Nil THEN LogContext("", Nil, Nil)
    ELSE LogContext(e.ctx.User, e.ctx.HTTPRequest, e.ctx.ReportLocation)

\* the loop of extractCtx over fields[i..]; keep says whether the default
\* case appends the field to output
RECURSIVE ExtractLoop(_, _, _, _, _)
ExtractLoop(fields, i, lc, output, keep) ==
    IF i > Len(fields) THEN [fields |-> output, ctx |-> lc]
    ELSE LET f == fields[i] IN
         CASE f.Key = keyContextHTTPRequest ->
                  ExtractLoop(fields, i + 1, [lc EXCEPT !.HTTPRequest = f.val],
                              output, keep)
           [] f.Key = keyContextReportLocation ->
                  ExtractLoop(fields, i + 1, [lc EXCEPT !.ReportLocation = f.val],
                              output, keep)
           [] f.Key = keyContextUser ->
                  ExtractLoop(fields, i + 1, [lc EXCEPT !.User = f.val.v],
                              output, keep)
           [] OTHER ->
                  ExtractLoop(fields, i + 1, lc,
                              IF keep THEN Append(output, f) ELSE output, keep)

\* extractCtx
ExtractCtx(e, fields) ==
    IF e.version = "part_001"
    THEN ExtractLoop(fields, 1, CloneCtx(e), <<>>, TRUE)
    ELSE IF IsEmpty(CloneCtx(e)) THEN [fields |-> fields, ctx |-> Nil]
    ELSE ExtractLoop(fields, 1, CloneCtx(e), <<>>, FALSE)

\* ReportLocationFromEntry, reportLocationFromEntry
ReportLocationFromEntry(e, ent) ==
    IF ~e.SetReportLocation THEN Nil
    ELSE IF ~ent.Caller.Defined THEN Nil
    ELSE ReportLocation(ent.Caller.File, ent.Caller.Line)

\* cloneCtx as a pointer: st holds the LogContext objects, st[1] being the
\* one e.ctx points to; the clone is a new object
CloneCtxShared(e, st) ==
    IF e.ctx = Nil THEN [st |-> Append(st, CloneCtx(e)), lc |-> Len(st) + 1]
    ELSE [st |-> st, lc |-> 1]

CloneCtxAt(e, st) == [st |-> Append(st, CloneCtx(e)), lc |-> Len(st) + 1]

\* the object e.ctx points to once extractCtx has returned: extractCtx
\* assigns to the members of *lc only
CtxAfterExtract(e, fields) ==
    LET c == CloneCtxAt(e, <<e.ctx>>)
        x == ExtractCtx(e, fields)
        st == IF x.ctx = Nil THEN c.st ELSE [c.st EXCEPT ![c.lc] = x.ctx]
    IN  st[1]

\* NewStackdriverEncoderConfig: the keys of the members of an entry; the
\* wrapped encoder is made with the same configuration
EncoderConfig ==
    [TimeKey |-> "eventTime", LevelKey |-> "severity", NameKey |-> "logger",
     CallerKey |-> "caller", MessageKey |-> "message", StacktraceKey |-> "trace"]

Time(x) == [t |-> "time", sec |-> x]

Level(l) == [t |-> "level", l |-> l]

Caller(c) == [t |-> "caller", c |-> c]

\* the member key: val if cond holds, nothing if not
If(cond, key, val) == IF cond THEN <<Field(key, val)>> ELSE <<>>

\* parseEntry: the members it adds to the clone of the wrapped encoder; the
\* zero time is 0.  cfg is e.EncoderConfig: with a nil one nothing is added.
\* The earlier version has no parseEntry.
ParseEntry(e, ent, cfg) ==
    IF e.version = "part_001" THEN <<>>
    ELSE IF cfg = Nil THEN <<>>
    ELSE If(ent.Time # 0 /\ cfg.TimeKey # "", cfg.TimeKey, Time(ent.Time))
         \o If(ent.LoggerName # "" /\ cfg.NameKey # "", cfg.NameKey, Str(ent.LoggerName))
         \o If(ent.Caller.Defined /\ cfg.CallerKey # "", cfg.CallerKey, Caller(ent.Caller))
         \o If(ent.Message # "" /\ cfg.MessageKey # "", cfg.MessageKey, Str(ent.Message))
         \o If(ent.Stack # "" /\ cfg.StacktraceKey # "", cfg.StacktraceKey, Str(ent.Stack))

\* EncodeEntry of the wrapped encoder, zapcore's JSON encoder: the members
\* of the object it writes are those of the entry, the ones added to the
\* encoder before, and the fields
JsonEncodeEntry(cfg, added, ent, fields) ==
    If(cfg.LevelKey # "", cfg.LevelKey, Level(ent.Level))
    \o If(cfg.TimeKey # "", cfg.TimeKey, Time(ent.Time))
    \o If(ent.LoggerName # "" /\ cfg.NameKey # "", cfg.NameKey, Str(ent.LoggerName))
    \o If(ent.Caller.Defined /\ cfg.CallerKey # "", cfg.CallerKey, Caller(ent.Caller))
    \o If(cfg.MessageKey # "", cfg.MessageKey, Str(ent.Message))
    \o added
    \o fields
    \o If(ent.Stack # "" /\ cfg.StacktraceKey # "", cfg.StacktraceKey, Str(ent.Stack))

\* the loop of EncodeEntry of part_001 over the fields: every field with the
\* key "error" and the type zapcore.ErrorType adds its text to the message
RECURSIVE DueToError(_, _)
DueToError(msg, fields) ==
    IF fields = <<>> THEN msg
    ELSE DueToError(IF Head(fields).Key = "error" /\ Head(fields).val.t = "error"
                    THEN msg \o "\ndue to error: " \o Head(fields).val.v
                    ELSE msg,
                    Tail(fields))

\* the entry EncodeEntry of part_001 gives the wrapped encoder: with a
\* defined caller the message holds the errors of the fields, and a stack is
\* moved to the end of the message
MessageEntry(e, ent, fields) ==
    IF e.version # "part_001" THEN ent
    ELSE LET msg == IF ent.Caller.Defined THEN DueToError(ent.Message, fields)
                    ELSE ent.Message
         IN  IF ent.Stack # ""
             THEN [ent EXCEPT !.Message = msg \o "\n" \o ent.Stack, !.Stack = ""]
             ELSE [ent EXCEPT !.Message = msg]

\* e.lg.Log(sdlogging.Entry{...}): logged holds the entries the sink got
SinkLog(logged, ent, buf) ==
    Append(logged, [Timestamp |-> ent.Time, Severity |-> ParseLevel(ent.Level),
                    Payload |-> buf])

\* EncodeEntry: the fields the wrapped encoder is given, the severity of the
\* entry, the object in the buffer the wrapped encoder returns, what the sink
\* is given, and what e.ctx then points to.  The wrapped encoder panics on a
\* field that wraps a nil pointer: MarshalLogObject of a *ReportLocation, of
\* an *HTTPRequest and of a *LogContext each read a member of the receiver;
\* it returns no buffer then, and Log is not reached.  e.lg.Log panics on a
\* nil Logger, whose members it reads.  Nothing recovers either panic:
\* nothing is logged and EncodeEntry returns nothing.
SdEncodeEntry(e, ent, fields) ==
    LET added == ParseEntry(e, ent, e.EncoderConfig)
        x == ExtractCtx(e, fields)
        rl == ReportLocationFromEntry(e, ent)
        withCtx == IF e.version = "part_001" \/ x.ctx # Nil
                   THEN Append(x.fields, Field(keyContext, x.ctx))
                   ELSE x.fields
        withRl == IF e.version = "part_001" \/ rl # Nil
                  THEN Append(withCtx, Field(keyContextReportLocation, rl))
                  ELSE withCtx
        nilField == \E i \in 1..Len(withRl) : withRl[i].val = Nil
        panic == nilField \/ e.lg = Nil
        given == MessageEntry(e, ent, withRl)
        buf == IF nilField THEN <<>>
               ELSE JsonEncodeEntry(EncoderConfig, added, given, withRl)
    IN  [passed |-> withRl, severity |-> ParseLevel(ent.Level), given |-> given,
         added |-> added, buf |-> buf, panic |-> panic,
         panicIn |-> IF nilField THEN "Encoder.EncodeEntry"
                     ELSE IF e.lg = Nil THEN "lg.Log" ELSE "",
         logged |-> IF panic THEN <<>> ELSE SinkLog(<<>>, ent, buf),
         ctx |-> CtxAfterExtract(e, fields)]

\* MapBuffer.GetBuffer of pool/map.go: the content of the zap buffer it
\* returns, a new one whatever the MapBuffer holds
MbGetBuffer == <<>>

\* EncodeEntry of the stackdriverEncoder (part_003): the payload is a new
\* MapBuffer nothing is written to, the buffer returned is a new empty one
StackdriverEncodeEntry(ent, fields) ==
    LET buf == MbBytes(<<>>, NewMapPool)
    IN  [severity |-> ParseLevel(ent.Level), buf |-> MbGetBuffer,
         logged |-> SinkLog(<<>>, ent, buf)]

\* the sink of an Encoder that has one
Logger == [t |-> "Logger"]

\* the Encoder that init registers for the encoding "stackdriver": it wraps a
\* JSON encoder of the configuration it is given, and has no sink, no
\* EncoderConfig of its own and no context; Clone keeps all of that
InitEncoder ==
    [version |-> "stackdriver.go", SetReportLocation |-> FALSE, ctx |-> Nil,
     EncoderConfig |-> Nil, lg |-> Nil]

\* the Encoders: the ones NewStackdriverEncoder makes, of either version
\* (the earlier one has no EncoderConfig member), with or without report
\* locations and with a persistent context that is nil, empty, or has
\* members; and the one of init
Contexts ==
    {Nil, LogContext("", Nil, Nil), LogContext("root", Nil, Nil),
     LogContext("", HTTPRequest("GET /"), Nil),
     LogContext("root", HTTPRequest("GET /"), ReportLocation("p.go", 9))}

Encoders ==
    [version : {"stackdriver.go"}, SetReportLocation : BOOLEAN, ctx : Contexts,
     EncoderConfig : {EncoderConfig}, lg : {Logger}]
    \cup [version : {"part_001"}, SetReportLocation : BOOLEAN, ctx : Contexts,
          EncoderConfig : {Nil}, lg : {Logger}]
    \cup {InitEncoder}

Entries ==
    {[Level |-> l, Caller |-> c, Time |-> 5, LoggerName |-> "l",
      Message |-> "m", Stack |-> ""] :
        l \in {InfoLevel, ErrorLevel},
        c \in {[Defined |-> FALSE, File |-> "", Line |-> 0],
               [Defined |-> TRUE, File |-> "f.go", Line |-> 1]}}

FieldInputs ==
    {Field("k", Str("v")), Field("n", Str("w")),
     Field(keyContextUser, Str("alice")),
     Field(keyContextHTTPRequest, HTTPRequest("POST /x")),
     Field(keyContextReportLocation, ReportLocation("g.go", 2))}

\* the fields that wrap a nil pointer: what LogHTTPRequest,
\* LogReportLocation and WithContext make of nil
NilFields ==
    {Field(keyContextHTTPRequest, Nil), Field(keyContextReportLocation, Nil),
     Field(keyContext, Nil)}

\* such a field alone, before another field and after one
NilFieldLists ==
    {<<f>> : f \in NilFields}
    \cup {<<f, g>> : f \in NilFields, g \in FieldInputs}
    \cup {<<g, f>> : f \in NilFields, g \in FieldInputs}

FieldLists == UNION {[1..n -> FieldInputs] : n \in 0..MaxFields}

InitSd ==
    /\ InitPool
    /\ twin = NoTwin
    /\ esc = NoEsc
    /\ NoEncoders
    /\ \E e \in Encoders : sde = <<e>>
    /\ sent = [op |-> "none"]

\* e.EncodeEntry(ent, fields) on Encoder i; r is what the call does
EncodeEntry(i, ent, fields) ==
    /\ i \in DOMAIN sde
    /\ \E r \in {SdEncodeEntry(sde[i], ent, fields)} :
           /\ sent' = [op |-> "EncodeEntry", e |-> i, ent |-> ent, fields |-> fields,
                       passed |-> r.passed, severity |-> r.severity, given |-> r.given,
                       added |-> r.added, buf |-> r.buf, logged |-> r.logged,
                       panic |-> r.panic, panicIn |-> r.panicIn,
                       held |-> sde[i].ctx]
           /\ sde' = [sde EXCEPT ![i].ctx = r.ctx]
    /\ UNCHANGED <<poolVars, esc, encVars, twin>>

\* EncodeEntry of a stackdriverEncoder
EncoderEncodeEntry(ent, fields) ==
    /\ LET r == StackdriverEncodeEntry(ent, fields)
       IN  sent' = [op |-> "stackdriverEncoder.EncodeEntry", ent |-> ent,
                    fields |-> fields, severity |-> r.severity,
                    buf |-> r.buf, logged |-> r.logged]
    /\ UNCHANGED <<poolVars, esc, encVars, sde, twin>>

\* entries with and without a stack and a caller, and fields with the key
\* "error", of the type error and of the type string
MessageEntries ==
    {[Level |-> ErrorLevel, Caller |-> c, Time |-> 5, LoggerName |-> "l",
      Message |-> "m", Stack |-> st] :
        c \in {[Defined |-> FALSE, File |-> "", Line |-> 0],
               [Defined |-> TRUE, File |-> "f.go", Line |-> 1]},
        st \in {"", "st"}}

ErrorFieldLists ==
    {<<>>, <<Field("k", Str("v"))>>, <<Field("error", Err("boom"))>>,
     <<Field("error", Str("boom"))>>,
     <<Field("error", Err("boom")), Field("error", Err("bang"))>>}

NextSd ==
    \/ \E ent \in Entries, fields \in FieldLists : EncodeEntry(1, ent, fields)
    \/ \E ent \in MessageEntries, fields \in ErrorFieldLists :
          EncodeEntry(1, ent, fields)
    \/ \E ent \in Entries, fields \in NilFieldLists : EncodeEntry(1, ent, fields)

SpecSd == InitSd /\ [][NextSd]_vars

\* entries with and without a time, a logger name and a message
LogEntries ==
    {[Level |-> InfoLevel, Caller |-> [Defined |-> FALSE, File |-> "", Line |-> 0],
      Time |-> 0, LoggerName |-> "", Message |-> "", Stack |-> ""],
     [Level |-> ErrorLevel, Caller |-> [Defined |-> TRUE, File |-> "f.go", Line |-> 1],
      Time |-> 5, LoggerName |-> "l", Message |-> "m", Stack |-> ""],
     [Level |-> DPanicLevel, Caller |-> [Defined |-> FALSE, File |-> "", Line |-> 0],
      Time |-> 5, LoggerName |-> "", Message |-> "m", Stack |-> ""],
     [Level |-> 9, Caller |-> [Defined |-> FALSE, File |-> "", Line |-> 0],
      Time |-> 7, LoggerName |-> "l", Message |-> "", Stack |-> ""]}

\* the fields that carry a member of the context
ContextFieldLists ==
    UNION {[1..n -> {f \in FieldInputs : f.Key # "k" /\ f.Key # "n"}] :
              n \in 0..MaxFields}

NextLog ==
    \/ \E ent \in LogEntries, fields \in ContextFieldLists :
          EncodeEntry(1, ent, fields)
    \/ \E ent \in LogEntries, fields \in {fl \in ContextFieldLists : Len(fl) <= 1} :
          EncoderEncodeEntry(ent, fields)
    \/ \E ent \in MessageEntries, fields \in ErrorFieldLists :
          EncodeEntry(1, ent, fields)
    \/ \E ent \in LogEntries, fields \in NilFieldLists : EncodeEntry(1, ent, fields)

SpecLog == InitSd /\ [][NextLog]_vars

----------------------------------------------------------------------------
(* Part 5: the sync.Map backed MapBuffer (src/unnamed/part_000), run beside *)
(* the byte-slice backed MapBuffer of Part 1 on the same calls.              *)
(* twin.mem and twin.mb are the byte-slice buffer and its memory, twin.m is  *)
(* the sync.Map of the other buffer.                                         *)

\* the number of calls made on the two buffers
MaxTwinCalls == 3

keyByte == 1
keyString == 2
keyInt == 4
keyUint == 8
keyBool == 16
keyFloat == 32

\* the keys the methods compared here store under
MapKeys == {keyByte, keyString, keyInt, keyUint, keyBool, keyFloat}

\* the dynamic type and the bytes of a value held by the sync.Map
Absent == [t |-> "absent", v |-> <<>>]

ByteValue(b) == [t |-> "byte", v |-> <<b>>]

SliceValue(p) == [t |-> "[]byte", v |-> p]

\* getSyncMap: the pool of maps only ever holds new ones
getSyncMap == [k \in MapKeys |-> Absent]

\* sync.Map.Store: one value per key, the previous one is replaced
SmStore(m, k, val) == [m EXCEPT ![k] = val]

SmPresent(m) == {k \in MapKeys : m[k].t # "absent"}

\* sync.Map.Range visits every key once, in an order it does not specify
RangeOrders(m) ==
    LET ks == SmPresent(m)
        n  == Cardinality(ks) IN
    {o \in [1..n -> ks] : \A i, j \in 1..n : o[i] = o[j] => i = j}

\* Bytes, when Range visits the keys in the order ord
RECURSIVE SmBytesIn(_, _)
SmBytesIn(m, ord) ==
    IF ord = <<>> THEN <<>>
    ELSE m[Head(ord)].v \o SmBytesIn(m, Tail(ord))

\* Len: len(mb.Bytes()), the same in every order
SmLen(m) == Len(SmBytesIn(m, CHOOSE o \in RangeOrders(m) : TRUE))

SmReset(m) == getSyncMap

SmAppendByte(m, v) == SmStore(m, keyByte, ByteValue(v))

SmAppendString(m, s) == SmStore(m, keyString, SliceValue(UnsafeSlice(s)))

SmAppendInt(m, i) == SmStore(m, keyInt, SliceValue(FormatInt(i)))

SmAppendUint(m, i) == SmStore(m, keyUint, SliceValue(FormatUint(i)))

SmAppendBool(m, v) == SmStore(m, keyBool, SliceValue(FormatBool(v)))

\* strconv.FormatFloat panics on a bitSize that is neither 32 nor 64, and
\* nothing is stored
SmAppendFloat(m, f, bitSize) ==
    IF IllegalBitSize(bitSize) THEN [m |-> m, panic |-> TRUE]
    ELSE [m |-> SmStore(m, keyFloat, SliceValue(UnsafeSlice(FormatFloat(f, bitSize)))),
          panic |-> FALSE]

SmWrite(m, p) == SmStore(m, keyByte, SliceValue(p))

SmWriteString(m, s) == SmStore(m, keyString, SliceValue(UnsafeSlice(s)))

\* Truncate: n = 0 resets, an n out of range panics, any other n deletes
\* every key
SmTruncate(m, n) ==
    IF n = 0 THEN [m |-> SmReset(m), panic |-> FALSE]
    ELSE IF n < 0 \/ n > SmLen(m) THEN [m |-> m, panic |-> TRUE]
    ELSE [m |-> [k \in MapKeys |-> Absent], panic |-> FALSE]

\* TrimNewline, Range visiting the keys in the order ord: every []byte value
\* is indexed at the length of the whole content minus one
RECURSIVE SmTrimNewlineIn(_, _)
SmTrimNewlineIn(m, ord) ==
    IF ord = <<>> THEN [m |-> m, panic |-> FALSE]
    ELSE LET k == Head(ord)
             v == m[k]
             i == SmLen(m) - 1 IN
         IF i < 0 \/ v.t # "[]byte" THEN SmTrimNewlineIn(m, Tail(ord))
         ELSE IF i >= Len(v.v) THEN [m |-> m, panic |-> TRUE]
         ELSE SmTrimNewlineIn(
                 SmStore(m, k, SliceValue(IF v.v[i + 1] = 10 THEN SubSeq(v.v, 1, i) ELSE v.v)),
                 Tail(ord))

\* both buffers as their pools' Get returns them
TwinStart ==
    LET r == NewMapBuffer(<<>>)
        z == MbReset(r.mem, r.mb) IN
    [op |-> "Get", calls |-> 0, mem |-> z.mem, mb |-> [z.mb EXCEPT !.p = NewMapPool.p],
     m |-> SmReset(getSyncMap), shown |-> <<>>, panicBs |-> FALSE, panicSm |-> FALSE]

\* the model follows up to MaxTwinCalls calls
TwinMay == twin.op # "none" /\ twin.calls < MaxTwinCalls

\* what a call leaves: r is the byte-slice buffer after it, m the sync.Map
\* after it; shown is what Bytes() of the sync.Map buffer then returns, in
\* one of the orders Range may take
TwinDid(op, r, pb, m, ps) ==
    /\ \E o \in RangeOrders(m) :
          twin' = [op |-> op, calls |-> twin.calls + 1,
                   mem |-> r.mem, mb |-> r.mb, m |-> m,
                   shown |-> SmBytesIn(m, o), panicBs |-> pb, panicSm |-> ps]
    /\ UNCHANGED <<poolVars, esc, encVars, sdVars>>

\* what a call that may panic in either buffer leaves
TwinDidBoth(op, r, t) == TwinDid(op, r, r.panic, t.m, t.panic)

TwinReset ==
    /\ TwinMay
    /\ TwinDid("Reset", MbReset(twin.mem, twin.mb), FALSE, SmReset(twin.m), FALSE)

TwinAppendByte(v) ==
    /\ TwinMay
    /\ \E nc \in GrowCaps(twin.mb.bs, 1) :
          TwinDid("AppendByte", MbAppendByte(twin.mem, twin.mb, v, nc), FALSE,
                  SmAppendByte(twin.m, v), FALSE)

TwinAppendString(s) ==
    /\ TwinMay
    /\ \E nc \in GrowCaps(twin.mb.bs, Len(s)) :
          TwinDid("AppendString", MbAppendString(twin.mem, twin.mb, s, nc), FALSE,
                  SmAppendString(twin.m, s), FALSE)

TwinAppendInt(i) ==
    /\ TwinMay
    /\ \E nc \in GrowCaps(twin.mb.bs, Len(FormatInt(i))) :
          TwinDid("AppendInt", MbAppendInt(twin.mem, twin.mb, i, nc), FALSE,
                  SmAppendInt(twin.m, i), FALSE)

TwinAppendUint(i) ==
    /\ TwinMay
    /\ \E nc \in GrowCaps(twin.mb.bs, Len(FormatUint(i))) :
          TwinDid("AppendUint", MbAppendUint(twin.mem, twin.mb, i, nc), FALSE,
                  SmAppendUint(twin.m, i), FALSE)

TwinAppendBool(v) ==
    /\ TwinMay
    /\ \E nc \in GrowCaps(twin.mb.bs, Len(FormatBool(v))) :
          TwinDid("AppendBool", MbAppendBool(twin.mem, twin.mb, v, nc), FALSE,
                  SmAppendBool(twin.m, v), FALSE)

TwinAppendFloat(f, bitSize) ==
    /\ TwinMay
    /\ \E g \in GoBuilds :
          TwinDidBoth("AppendFloat", MbAppendFloat(twin.mem, twin.mb, f, bitSize, g),
                      SmAppendFloat(twin.m, f, bitSize))

TwinWrite(p) ==
    /\ TwinMay
    /\ \E nc \in GrowCaps(twin.mb.bs, Len(p)) :
          TwinDid("Write", MbWrite(twin.mem, twin.mb, p, nc), FALSE,
                  SmWrite(twin.m, p), FALSE)

TwinWriteString(s) ==
    /\ TwinMay
    /\ \E nc \in GrowCaps(twin.mb.bs, Len(s)) :
          TwinDid("WriteString", MbWriteString(twin.mem, twin.mb, s, nc), FALSE,
                  SmWriteString(twin.m, s), FALSE)

TwinTruncate(n) ==
    /\ TwinMay
    /\ LET r == MbTruncate(twin.mem, twin.mb, n)
           t == SmTruncate(twin.m, n) IN
       TwinDid("Truncate", r, r.panic, t.m, t.panic)

TwinTrimNewline ==
    /\ TwinMay
    /\ \E o \in RangeOrders(twin.m) :
          LET t == SmTrimNewlineIn(twin.m, o) IN
          TwinDid("TrimNewline", MbTrimNewline(twin.mem, twin.mb), FALSE, t.m, t.panic)

InitTwin ==
    /\ InitPool
    /\ esc = NoEsc
    /\ NoEncoders
    /\ NoStackdriver
    /\ twin = TwinStart

NextTwin ==
    \/ TwinReset
    \/ \E v \in {97, 10} : TwinAppendByte(v)
    \/ \E s \in {<<118>>, <<10>>} : TwinAppendString(s)
    \/ \E i \in {7, -1} : TwinAppendInt(i)
    \/ \E i \in {7} : TwinAppendUint(i)
    \/ \E v \in BOOLEAN : TwinAppendBool(v)
    \/ \E f \in BufFloatInputs, bitSize \in {64, 16} : TwinAppendFloat(f, bitSize)
    \/ \E p \in {<<107>>, <<107, 10>>} : TwinWrite(p)
    \/ \E s \in {<<115>>, <<10>>} : TwinWriteString(s)
    \/ \E n \in {-1, 0, 1, 2} : TwinTruncate(n)
    \/ TwinTrimNewline

SpecTwin == InitTwin /\ [][NextTwin]_vars

----------------------------------------------------------------------------
(* Properties of the pool and of the buffer *)

Min(a, b) == IF a <= b THEN a ELSE b

\* the buffers the pool's New has made
Pooled == 2..Len(heap)

\* C1: every buffer Get returns has Len() = 0, also one that was Put back
\* with content in it.
C1_GetReturnsEmpty ==
    last.op = "Get" => MbLen(heap[last.b]) = 0 /\ MbBytes(mem, heap[last.b]) = <<>>

\* a buffer came out of the pool with the content it was put back with
C1_Witness ==
    /\ last.op = "Get"
    /\ Len(ObsBytes(last.pre)) >= 2
    /\ last.pre.mb.p = 1
    /\ MbLen(heap[last.b]) = 0

\* C2: as long as no caller has Put one reference twice, no buffer is held
\* by two callers at once, and no buffer that is held is in the pool to be
\* handed out again.
C2_NoSharedBuffer ==
    ~doublePut =>
        /\ \A c1, c2 \in Callers :
              (c1 # c2 /\ Holding(c1) /\ Holding(c2)) => Buf(c1) # Buf(c2)
        /\ \A c \in Callers : Holding(c) => ~BagIn(Buf(c), idle)

\* both callers hold a buffer, the one handed out last being a recycled one
C2_Witness ==
    /\ ~doublePut
    /\ \A c \in Callers : Holding(c)
    /\ last.op = "Get"
    /\ last.pre.mb.p = 1

\* the decimal numerals of up to three digits, and the number each denotes
Numerals == UNION { [1..k -> 48..57] : k \in 1..3 }

RECURSIVE NumeralValue(_)
NumeralValue(d) ==
    IF Len(d) = 0 THEN 0
    ELSE 10 * NumeralValue(SubSeq(d, 1, Len(d) - 1)) + (d[Len(d)] - 48)

\* the base-10 text of the integers that are appended: no sign for a
\* natural, no leading zero
Magnitudes == { IF i < 0 THEN -i ELSE i : i \in IntInputs \cup UintInputs }

Base10 ==
    [n \in Magnitudes |->
        CHOOSE d \in Numerals : NumeralValue(d) = n /\ (Len(d) = 1 \/ d[1] # 48)]

\* the text the claim gives to one logged call
TextOf(e) ==
    CASE e.kind = "byte" -> <<e.val>>
      [] e.kind \in {"string", "bytes"} -> e.val
      [] e.kind = "bool" -> IF e.val THEN <<116, 114, 117, 101>> ELSE <<102, 97, 108, 115, 101>>
      [] e.kind = "uint" -> Base10[e.val]
      [] e.kind = "int" -> IF e.val < 0 THEN <<45>> \o Base10[-e.val] ELSE Base10[e.val]

TextOfLog(log) == Flatten([k \in 1..Len(log) |-> TextOf(log[k])])

\* C3: after a Reset, Bytes() is the concatenation in call order of the
\* texts of the appended values, String() reads the same and Len() is its
\* length.
C3_AppendsConcatenate ==
    \A b \in DOMAIN heap :
        calls[b].clean =>
            LET want == TextOfLog(calls[b].log) IN
            /\ MbBytes(mem, heap[b]) = want
            /\ StringBytes(MbString(mem, heap[b]).mem, MbString(mem, heap[b]).str) = want
            /\ MbLen(heap[b]) = Len(want)

\* a negative integer, a boolean and a byte were appended over the remains
\* of earlier content
C3_Witness ==
    \E b \in Pooled :
        /\ calls[b].clean
        /\ Len(calls[b].log) >= 2
        /\ \E k \in 1..Len(calls[b].log) : calls[b].log[k].kind = "int" /\ calls[b].log[k].val < 0
        /\ \E k \in 1..Len(calls[b].log) : calls[b].log[k].kind \in {"byte", "uint", "bytes"}
        /\ Len(mem[heap[b].bs.ptr]) > MbLen(heap[b])

\* C4: a pool buffer whose content never exceeded the initial capacity has
\* Cap() = size, whatever was done to it; Reset and Truncate, and the Reset
\* inside Get, never lower Cap().
C4_CapStays ==
    /\ \A b \in Pooled : ~over[b] => MbCap(heap[b]) = size
    /\ last.op \in {"Reset", "Truncate", "Get"} => MbCap(heap[last.b]) >= MbCap(last.pre.mb)

\* a pool buffer that is in its second checkout was cut short, and has its
\* capacity
C4_Witness ==
    /\ last.op = "Truncate"
    /\ last.b \in Pooled
    /\ ~last.panic
    /\ last.n < Len(ObsBytes(last.pre))
    /\ Len(mem[heap[last.b].bs.ptr]) > Len(ObsBytes(last.pre))
    /\ MbCap(heap[last.b]) = size

\* C5: Truncate(n) with 0 < n <= Len() keeps exactly the first n bytes.
C5_TruncateKeepsPrefix ==
    (last.op = "Truncate" /\ 0 < last.n /\ last.n <= Len(ObsBytes(last.pre))) =>
        /\ ~last.panic
        /\ MbBytes(mem, heap[last.b]) = SubSeq(ObsBytes(last.pre), 1, last.n)
        /\ MbLen(heap[last.b]) = last.n

\* a buffer holding different bytes was cut in the middle
C5_Witness ==
    /\ last.op = "Truncate"
    /\ 0 < last.n /\ last.n < Len(ObsBytes(last.pre))
    /\ \E i, j \in 1..Len(ObsBytes(last.pre)) : ObsBytes(last.pre)[i] # ObsBytes(last.pre)[j]
    /\ MbLen(heap[last.b]) = last.n

\* C6: Truncate(n) with n < 0 or n > Len() panics and leaves the buffer as
\* it was.
C6_TruncateOutOfRange ==
    (last.op = "Truncate" /\ (last.n < 0 \/ last.n > Len(ObsBytes(last.pre)))) =>
        /\ last.panic
        /\ Obs(mem, heap[last.b]) = last.pre

\* a Truncate beyond the content of a buffer that holds something panicked
C6_Witness ==
    /\ last.op = "Truncate"
    /\ last.panic
    /\ last.n > Len(ObsBytes(last.pre))
    /\ Len(ObsBytes(last.pre)) > 0

\* C7: Truncate(0) leaves what Reset would have left: length 0, the same
\* storage with the same capacity, the same pool reference.
C7_TruncateZeroIsReset ==
    (last.op = "Truncate" /\ last.n = 0) =>
        /\ ~last.panic
        /\ heap[last.b] = MbReset(mem, last.pre.mb).mb
        /\ Obs(mem, heap[last.b]).arr = last.pre.arr
        /\ MbLen(heap[last.b]) = 0
        /\ MbCap(heap[last.b]) = MbCap(last.pre.mb)
        /\ heap[last.b].p = last.pre.mb.p
        /\ calls[last.b] = NoLog

\* Truncate(0) emptied a buffer that held content
C7_Witness ==
    /\ last.op = "Truncate" /\ last.n = 0
    /\ Len(ObsBytes(last.pre)) > 0
    /\ MbLen(heap[last.b]) = 0

\* C8: TrimNewline drops one byte if the last byte is a line feed and does
\* nothing otherwise.
C8_TrimNewlineOnce ==
    last.op = "TrimNewline" =>
        LET was == ObsBytes(last.pre)
            now == MbBytes(mem, heap[last.b]) IN
        /\ IF Len(was) > 0 /\ was[Len(was)] = 10
           THEN now = SubSeq(was, 1, Len(was) - 1)
           ELSE now = was
        /\ MbCap(heap[last.b]) = MbCap(last.pre.mb)

\* a buffer ending in two line feeds lost one of them
C8_Witness ==
    /\ last.op = "TrimNewline"
    /\ Len(ObsBytes(last.pre)) >= 2
    /\ ObsBytes(last.pre)[Len(ObsBytes(last.pre))] = 10
    /\ MbLen(heap[last.b]) = Len(ObsBytes(last.pre)) - 1
    /\ MbBytes(mem, heap[last.b])[MbLen(heap[last.b])] = 10

\* C9: as long as append has not moved the buffer to new storage, a string
\* got from String() reads what the buffer holds now at every position both
\* have.
C9_StringSharesStorage ==
    \A c \in Callers :
        (view[c].taken /\ view[c].fresh) =>
            \A i \in 1..Min(view[c].str.len, MbLen(heap[view[c].b])) :
                StringBytes(mem, view[c].str)[i] = MbBytes(mem, heap[view[c].b])[i]

\* after String(), Reset() and an append that fits, the string no longer
\* reads what it read when it was taken
C9_Witness ==
    \E c \in Callers :
        /\ view[c].taken /\ view[c].fresh
        /\ view[c].b \in Pooled
        /\ last.op = "AppendByte"
        /\ MbLen(heap[view[c].b]) = 1
        /\ view[c].str.len >= 1
        /\ StringBytes(mem, view[c].str)[1] # view[c].snap[1]
        /\ StringBytes(mem, view[c].str)[1] = MbBytes(mem, heap[view[c].b])[1]

----------------------------------------------------------------------------
(* Properties of the string escaper *)

\* the input bytes the last iteration consumed, the output bytes it wrote
EscConsumed == SubSeq(esc.s, esc.from + 1, esc.i)

EscWritten == SubSeq(esc.out, esc.mark + 1, Len(esc.out))

EscDone == esc.i = Len(esc.s)

\* the lowercase hex digit of d
HexLower(d) == IF d < 10 THEN 48 + d ELSE 87 + d

\* the escape table, for the bytes below 0x7f
EscapeTable(b) ==
    CASE b \in {34, 92} -> <<92, b>>
      [] b = 10 -> <<92, 110>>
      [] b = 13 -> <<92, 114>>
      [] b = 9  -> <<92, 116>>
      [] b < 32 /\ b \notin {10, 13, 9} ->
             <<92, 117, 48, 48, HexLower(b \div 16), HexLower(b % 16)>>
      [] OTHER -> <<b>>

\* a JSON unescaper: the bytes a JSON string body stands for, <<-1>> where
\* it is not the body of a JSON string
NotJson == <<-1>>

HexVal(c) ==
    IF c \in 48..57 THEN c - 48
    ELSE IF c \in 97..102 THEN c - 87
    ELSE IF c \in 65..70 THEN c - 55
    ELSE -1

\* UTF-8 of a code point of the basic plane
EncodeRune(r) ==
    IF r < 128 THEN <<r>>
    ELSE IF r < 2048 THEN <<192 + (r \div 64), 128 + (r % 64)>>
    ELSE IF r \in 55296..57343 THEN <<239, 191, 189>>
    ELSE <<224 + (r \div 4096), 128 + ((r \div 64) % 64), 128 + (r % 64)>>

RECURSIVE JsonUnescape(_)
JsonUnescape(o) ==
    IF o = <<>> THEN <<>>
    ELSE IF o[1] = 92
    THEN IF Len(o) < 2 THEN NotJson
         ELSE LET rest == JsonUnescape(SubSeq(o, 3, Len(o)))
              IN  CASE o[2] \in {34, 92, 47} -> <<o[2]>> \o rest
                    [] o[2] = 110 -> <<10>> \o rest
                    [] o[2] = 114 -> <<13>> \o rest
                    [] o[2] = 116 -> <<9>> \o rest
                    [] o[2] = 98  -> <<8>> \o rest
                    [] o[2] = 102 -> <<12>> \o rest
                    [] o[2] = 117 ->
                         IF Len(o) >= 6 /\ \A k \in 3..6 : HexVal(o[k]) >= 0
                         THEN EncodeRune(HexVal(o[3]) * 4096 + HexVal(o[4]) * 256
                                         + HexVal(o[5]) * 16 + HexVal(o[6]))
                              \o JsonUnescape(SubSeq(o, 7, Len(o)))
                         ELSE NotJson
                    [] OTHER -> NotJson
    ELSE IF o[1] < 32 \/ o[1] = 34 THEN NotJson
    ELSE <<o[1]>> \o JsonUnescape(Tail(o))

\* well-formed UTF-8, by the table of the Unicode standard
RECURSIVE WellFormed(_)
WellFormed(s) ==
    LET n == Len(s)
        from(k) == SubSeq(s, k, n)
        cont(b) == b \in 128..191
    IN  \/ s = <<>>
        \/ s[1] < 128 /\ WellFormed(from(2))
        \/ /\ n >= 2
           /\ s[1] \in 194..223 /\ cont(s[2])
           /\ WellFormed(from(3))
        \/ /\ n >= 3
           /\ \/ s[1] = 224 /\ s[2] \in 160..191
              \/ s[1] \in (225..236) \cup (238..239) /\ cont(s[2])
              \/ s[1] = 237 /\ s[2] \in 128..159
           /\ cont(s[3])
           /\ WellFormed(from(4))
        \/ /\ n >= 4
           /\ \/ s[1] = 240 /\ s[2] \in 144..191
              \/ s[1] \in 241..243 /\ cont(s[2])
              \/ s[1] = 244 /\ s[2] \in 128..143
           /\ cont(s[3]) /\ cont(s[4])
           /\ WellFormed(from(5))

\* every byte below 0x7f is consumed alone and written as the table says,
\* whatever surrounds it, and a string of such bytes comes out as the
\* table's entries one after the other
EscFollowsTable ==
    /\ (esc.i > esc.from /\ esc.s[esc.from + 1] < 127) =>
           /\ esc.i = esc.from + 1
           /\ EscWritten = EscapeTable(esc.s[esc.from + 1])
    /\ (EscDone /\ \A k \in 1..Len(esc.s) : esc.s[k] < 127) =>
           esc.out = Flatten([k \in 1..Len(esc.s) |-> EscapeTable(esc.s[k])])

\* C10 as stated: safeAddString writes printable ASCII other than the quote
\* and the backslash unchanged, escapes the quote, the backslash, line feed,
\* carriage return, tab and the other bytes below 0x20 by the table, and
\* for every input a JSON unescaper gives the input bytes back from the
\* output.
C10_RoundTripEveryInput ==
    /\ EscFollowsTable
    /\ EscDone => JsonUnescape(esc.out) = esc.s

\* C10, amended: the table holds for every input; a JSON unescaper gives the
\* input bytes back from the output for every input that is well-formed
\* UTF-8.
C10_EscapesRoundTrip ==
    /\ EscFollowsTable
    /\ (EscDone /\ WellFormed(esc.s)) => JsonUnescape(esc.out) = esc.s

\* a control byte and a two-byte rune were escaped and decode back
C10_Witness ==
    /\ EscDone
    /\ WellFormed(esc.s)
    /\ \E k \in 1..Len(esc.s) : esc.s[k] = 1
    /\ \E k \in 1..Len(esc.s) : esc.s[k] >= 128
    /\ esc.out # esc.s
    /\ JsonUnescape(esc.out) = esc.s

\* the length of the well-formed UTF-8 sequence p starts with, 0 if none
RuneLen(p) ==
    LET lens == {k \in 1..Min(4, Len(p)) : /\ WellFormed(SubSeq(p, 1, k))
                                           /\ \A j \in 1..(k - 1) :
                                                  ~WellFormed(SubSeq(p, 1, j))}
    IN  IF lens = {} THEN 0 ELSE CHOOSE k \in lens : TRUE

\* what C11 says of one iteration: esc before it, esc' after it
EscIterationReplaces ==
    LET s == esc.s
        rest == SubSeq(s, esc.i + 1, Len(s))
        k == esc'.i - esc.i
        w == SubSeq(esc'.out, Len(esc.out) + 1, Len(esc'.out))
    IN  /\ esc'.s = s
        /\ SubSeq(esc'.out, 1, Len(esc.out)) = esc.out
        /\ k >= 1 /\ esc'.i <= Len(s)
        /\ (rest[1] >= 128 /\ RuneLen(rest) = 0) =>
               k = 1 /\ w = <<92, 117, 102, 102, 102, 100>>
        /\ (rest[1] >= 128 /\ RuneLen(rest) > 0) =>
               k = RuneLen(rest) /\ w = SubSeq(rest, 1, k)

\* C11: a byte >= 0x80 that starts no valid UTF-8 sequence is written as
\* the six characters \ufffd and consumed alone; a valid multi-byte rune is
\* copied verbatim and consumed whole; every iteration moves forward in the
\* input, never past its end, and the loop ends for every input.
C11_InvalidByteReplaced ==
    /\ [][esc' # esc => EscIterationReplaces]_vars
    /\ <>EscDone

\* an invalid byte was replaced, and the three-byte rune after it copied
C11_Witness ==
    /\ EscDone
    /\ esc.i = esc.from + 3
    /\ EscWritten = EscConsumed
    /\ esc.mark = 6
    /\ SubSeq(esc.out, 1, 6) = <<92, 117, 102, 102, 102, 100>>
    /\ esc.from = 1

----------------------------------------------------------------------------
(* Properties of the stackdriverEncoder *)

\* the main buffer of the encoder last called, before and after the call
EncBefore == elast.pre.bufs[elast.pre.encs[elast.e].buf]

EncAfter == bufs[encs[elast.e].buf]

\* the call only appended
EncKeptPrefix ==
    /\ Len(EncAfter) >= Len(EncBefore)
    /\ SubSeq(EncAfter, 1, Len(EncBefore)) = EncBefore

\* what the call appended
EncNew == SubSeq(EncAfter, Len(EncBefore) + 1, Len(EncAfter))

\* what may stand between two values
Separators == {<<>>, <<44>>, <<44, 32>>}

\* t is sep \o tok for a separator sep
EndsValue(t, tok) == \E sep \in Separators : t = sep \o tok

\* t is the plain decimal of the finite value f: sign, digits, and a point
\* with the fraction digits if there are any
IsDecimalOf(t, f) ==
    LET body == IF f.neg THEN Tail(t) ELSE t
        n == Len(body) - (IF f.frac = <<>> THEN 0 ELSE Len(f.frac) + 1)
    IN  /\ t # <<>>
        /\ f.neg => t[1] = 45
        /\ n >= 1
        /\ \A k \in 1..n : body[k] \in 48..57
        /\ NumeralValue(SubSeq(body, 1, n)) = f.int
        /\ n > 1 => body[1] # 48
        /\ f.frac # <<>> =>
               /\ body[n + 1] = 46
               /\ \A k \in 1..Len(f.frac) : body[n + 1 + k] = 48 + f.frac[k]

\* C12: AppendFloat64 and AppendFloat32 write "NaN", "+Inf" and "-Inf" in
\* quotes for NaN and the infinities and an unquoted decimal for a finite
\* value; no quote-less NaN or infinity is ever written by either.
C12_FloatsQuoteNonFinite ==
    elast.op \in {"AppendFloat64", "AppendFloat32"} =>
        /\ EncKeptPrefix
        /\ \E sep \in Separators :
               LET tok == SubSeq(EncNew, Len(sep) + 1, Len(EncNew)) IN
               /\ SubSeq(EncNew, 1, Len(sep)) = sep
               /\ CASE elast.arg.class = "NaN" -> tok = <<34, 78, 97, 78, 34>>
                    [] elast.arg.class = "Inf" /\ ~elast.arg.neg ->
                           tok = <<34, 43, 73, 110, 102, 34>>
                    [] elast.arg.class = "Inf" /\ elast.arg.neg ->
                           tok = <<34, 45, 73, 110, 102, 34>>
                    [] OTHER -> IsDecimalOf(tok, elast.arg)

\* AppendFloat32 of negative infinity after another value: a comma, then
\* the quoted token
C12_Witness ==
    /\ elast.op = "AppendFloat32"
    /\ elast.arg = Inf(-1)
    /\ EncBefore # <<>>
    /\ EncNew = <<44, 34, 45, 73, 110, 102, 34>>

\* the callback the encoder last called was configured with, for the call
EncCallback ==
    IF elast.op = "AppendDuration"
    THEN elast.pre.encs[elast.e].cfg.EncodeDuration
    ELSE elast.pre.encs[elast.e].cfg.EncodeTime

\* t is the plain decimal of the integer n
IsIntegerText(t, n) == IsDecimalOf(t, Finite(n < 0, IF n < 0 THEN -n ELSE n, <<>>))

\* C13: AppendDuration and AppendTime write exactly one value: the integer
\* of nanoseconds, once, when the configured callback wrote nothing, and
\* what the callback wrote, with nothing after it, when it wrote something.
C13_DurationTimeOneValue ==
    (elast.op \in {"AppendDuration", "AppendTime"} /\ ~elast.panic) =>
        /\ EncKeptPrefix
        /\ \E sep \in Separators :
               LET tok == SubSeq(EncNew, Len(sep) + 1, Len(EncNew)) IN
               /\ SubSeq(EncNew, 1, Len(sep)) = sep
               /\ (sep = <<>>) <=>
                      (EncBefore = <<>> \/ EncBefore[Len(EncBefore)] \in {58, 32})
               /\ CASE EncCallback = "noop" -> IsIntegerText(tok, elast.arg)
                    [] EncCallback = "nanos" -> IsIntegerText(tok, elast.arg)
                    [] EncCallback = "string" ->
                           /\ Len(tok) >= 3
                           /\ tok[1] = 34 /\ tok[Len(tok)] = 34
                           /\ IsIntegerText(SubSeq(tok, 2, Len(tok) - 1), elast.arg)

\* a no-op EncodeDuration, after another value: the fallback wrote -3
C13_Witness ==
    /\ elast.op = "AppendDuration"
    /\ ~elast.panic
    /\ EncCallback = "noop"
    /\ elast.arg = -3
    /\ EncBefore # <<>>
    /\ EncNew = <<44, 45, 51>>

\* C14: when the reflection-based serialization fails in AddReflected or
\* AppendReflected, the error is returned and the main buffer is byte for
\* byte what it was before the call.
C14_ReflectFailureWritesNothing ==
    (elast.op \in {"AddReflected", "AppendReflected"} /\ ~elast.arg.ok) =>
        /\ elast.err = elast.arg.err
        /\ elast.err # 0
        /\ EncAfter = EncBefore

\* AddReflected failed on an encoder whose main buffer had content and
\* whose scratch buffer held an earlier value
C14_Witness ==
    /\ elast.op = "AddReflected"
    /\ elast.err = 1
    /\ EncBefore # <<>>
    /\ elast.pre.encs[elast.e].reflectBuf # 0
    /\ elast.pre.bufs[elast.pre.encs[elast.e].reflectBuf] # <<>>
    /\ bufs[encs[elast.e].reflectBuf] = <<>>

\* what a caller of the marshaler m is owed: n, the members and elements
\* written before the first error in call order, and err, that error
RECURSIVE Owed(_)
RECURSIVE OwedCalls(_)

OwedCalls(cs) ==
    IF cs = <<>> THEN [n |-> 0, err |-> 0]
    ELSE LET c == Head(cs)
             r == IF c.op \in {"AddInt64", "AppendInt64"}
                  THEN [n |-> 1, err |-> 0]
                  ELSE Owed(c.m)
             t == OwedCalls(Tail(cs))
         IN  IF r.err # 0 THEN r ELSE [n |-> r.n + t.n, err |-> t.err]

Owed(m) ==
    LET r == OwedCalls(m.calls)
    IN  IF r.err # 0 THEN r ELSE [n |-> r.n, err |-> m.err]

\* how many times the byte b stands in t
Count(t, b) == Cardinality({k \in 1..Len(t) : t[k] = b})

\* t without a leading comma and space
Unseparated(t) ==
    IF t # <<>> /\ t[1] = 44
    THEN IF Len(t) > 1 /\ t[2] = 32 THEN SubSeq(t, 3, Len(t)) ELSE Tail(t)
    ELSE t

\* C15: the error of a marshal callback, at any depth, is what AddObject,
\* AppendObject, AddArray and AppendArray return; the key, the opening
\* bracket and the members written before the error stay in the buffer, and
\* every bracket that was opened is closed.
C15_MarshalErrorPropagates ==
    elast.op \in {"AddObject", "AppendObject", "AddArray", "AppendArray"} =>
        LET open == IF elast.op \in {"AddObject", "AppendObject"} THEN 123 ELSE 91
            close == IF open = 123 THEN 125 ELSE 93
            body == Unseparated(EncNew)
            keyed == elast.op \in {"AddObject", "AddArray"}
            val == IF keyed
                   THEN SubSeq(body, IF elast.pre.encs[elast.e].spaced THEN 6 ELSE 5,
                               Len(body))
                   ELSE body
        IN  /\ elast.err = Owed(elast.arg).err
            /\ EncKeptPrefix
            /\ keyed => SubSeq(body, 1, 4) = <<34, 107, 34, 58>>
            /\ Len(val) >= 2
            /\ val[1] = open /\ val[Len(val)] = close
            /\ Count(EncNew, 49) = Owed(elast.arg).n
            /\ Count(EncNew, 123) = Count(EncNew, 125)
            /\ Count(EncNew, 91) = Count(EncNew, 93)

\* AddObject with a nested object whose callback wrote a member and then
\* failed: the error came back, both members are there, both objects closed
C15_Witness ==
    /\ elast.op = "AddObject"
    /\ elast.err = 1
    /\ Len(elast.arg.calls) = 3
    /\ ~elast.pre.encs[elast.e].spaced
    /\ EncBefore # <<>>
    /\ Unseparated(EncNew) =
           <<34, 107, 34, 58, 123, 34, 107, 34, 58, 49, 44,
             34, 111, 34, 58, 123, 34, 107, 34, 58, 49, 125, 125>>

----------------------------------------------------------------------------
(* Properties of the stackdriver Encoder *)

\* the table of the severities, by the names of the levels
SeverityTable ==
    {<<-1, "Debug">>, <<0, "Info">>, <<1, "Warning">>, <<2, "Error">>,
     <<3, "Critical">>, <<4, "Alert">>, <<5, "Emergency">>}

\* C16: parseLevel maps debug, info, warn, error, d-panic, panic, fatal to
\* Debug, Info, Warning, Error, Critical, Alert, Emergency and every other
\* level to Default; each of the seven severities comes from one level only.
C16_ParseLevelTable ==
    sent.op = "parseLevel" =>
        /\ \A p \in SeverityTable : sent.level = p[1] <=> sent.severity = p[2]
        /\ sent.severity = "Default" <=> sent.level \notin -1..5

\* d-panic was mapped to Critical
C16_Witness ==
    /\ sent.op = "parseLevel"
    /\ sent.level = 3
    /\ sent.severity = "Critical"

\* C17: after c := e.Clone(), a call of Add*, Append* or OpenNamespace on
\* one of the two leaves the buffer content and the open-namespace depth of
\* the other as they were.
C17_CloneIndependent ==
    (elast.op \in {"AddInt64", "AddString", "OpenNamespace"}
        /\ Len(elast.pre.encs) > 1) =>
        \A o \in DOMAIN elast.pre.encs \ {elast.e} :
            /\ bufs[encs[o].buf] = elast.pre.bufs[elast.pre.encs[o].buf]
            /\ encs[o].openNamespaces = elast.pre.encs[o].openNamespaces

ContextKeys == {keyContextHTTPRequest, keyContextUser, keyContextReportLocation}

\* the fields of fs whose key is none of the context keys, in their order
NonContext(fs) == SelectSeq(fs, LAMBDA f : f.Key \notin ContextKeys \cup {keyContext})

\* the value of the last field of fs with key k, or other if there is none
LastGiven(fs, k, other) ==
    LET at == {i \in 1..Len(fs) : fs[i].Key = k}
    IN  IF at = {} THEN other ELSE fs[CHOOSE i \in at : \A j \in at : j <= i].val

\* the context the Encoder of the last call holds
Persistent == CloneCtx(sde[sent.e])

\* C18: every input field whose key is not context.httpRequest,
\* context.user or context.reportLocation is passed to the wrapped JSON
\* encoder, in its original relative order, whatever the persistent context
\* of the Encoder holds.
C18_NonContextFieldsPassed ==
    sent.op = "EncodeEntry" => NonContext(sent.passed) = NonContext(sent.fields)

\* C19: the fields with a context key are taken out of the top-level list,
\* and one context object is appended whose members are the values of those
\* fields where given and the persistent values where not, also when the
\* persistent context is empty.
C19_ContextFieldsMerged ==
    sent.op = "EncodeEntry" =>
        LET ctxAt == {i \in 1..Len(sent.passed) : sent.passed[i].Key = keyContext}
        IN  /\ \A i \in 1..Len(sent.passed) :
                   sent.passed[i].Key \in ContextKeys =>
                       sent.passed[i] \notin {sent.fields[j] : j \in 1..Len(sent.fields)}
            /\ (\E j \in 1..Len(sent.fields) : sent.fields[j].Key \in ContextKeys) =>
                   /\ Cardinality(ctxAt) = 1
                   /\ \A i \in ctxAt :
                          sent.passed[i].val =
                              LogContext(
                                  LastGiven(sent.fields, keyContextUser,
                                            Str(Persistent.User)).v,
                                  LastGiven(sent.fields, keyContextHTTPRequest,
                                            Persistent.HTTPRequest),
                                  LastGiven(sent.fields, keyContextReportLocation,
                                            Persistent.ReportLocation))

\* C20: a report-location field is appended to the fields if and only if
\* SetReportLocation is true and the entry's caller is defined; no nil
\* location is wrapped into a field.
C20_ReportLocationIffEnabled ==
    sent.op = "EncodeEntry" =>
        LET n == Len(sent.passed)
            wanted == sde[sent.e].SetReportLocation /\ sent.ent.Caller.Defined
            appended == /\ n > 0
                        /\ sent.passed[n].Key = keyContextReportLocation
                        /\ sent.passed[n] \notin
                               {sent.fields[j] : j \in 1..Len(sent.fields)}
        IN  /\ appended <=> wanted
            /\ wanted =>
                   sent.passed[n].val =
                       ReportLocation(sent.ent.Caller.File, sent.ent.Caller.Line)
            /\ \A i \in 1..n :
                   sent.passed[i].Key = keyContextReportLocation =>
                       sent.passed[i].val # Nil

----------------------------------------------------------------------------
(* Properties of the encoder as a writer of JSON members *)

\* the Add<Type>(key, value) methods and the Append<Type>(value) methods
\* that are called on the encoder itself
AddOps ==
    {"AddInt64", "AddString", "AddBool", "AddByteString", "AddReflected",
     "AddObject", "AddArray", "AddBinary", "AddUint64", "AddFloat64", "AddFloat32",
     "AddComplex128", "AddComplex64", "AddDuration", "AddTime"}
    \cup IntForwarders \cup UintForwarders

AppendOps ==
    {"AppendBool", "AppendString", "AppendByteString", "AppendInt64", "AppendUint64",
     "AppendComplex128", "AppendComplex64"}
    \cup AppendIntForwarders \cup AppendUintForwarders

\* the JSON text of the numbers and of the binaries given to the encoder:
\* 1; -0.2 as a float64 and -0.20000000298023224 as a float32; "NaN";
\* "0.1+0.2i" of float64 parts and
\* "0.10000000149011612+0.20000000298023224i" of float32 parts;
\* "NaN+-Infi"; and "", "aA==", "aGkh" for no byte, "h" and "hi!"
IntegerOps ==
    {"AddInt64", "AddUint64", "AddDuration", "AddTime"} \cup IntForwarders \cup UintForwarders

\* 0.10000000149011612 and 0.20000000298023224
Wide01 == <<48, 46, 49, 48, 48, 48, 48, 48, 48, 48, 49, 52, 57, 48, 49, 49, 54, 49, 50>>

Wide02 == <<48, 46, 50, 48, 48, 48, 48, 48, 48, 48, 50, 57, 56, 48, 50, 51, 50, 50, 52>>

FloatText(op, f) ==
    IF f = NaN THEN <<34, 78, 97, 78, 34>>
    ELSE IF op = "AddFloat64" THEN <<45, 48, 46, 50>>
    ELSE <<45>> \o Wide02

ComplexText(op, z) ==
    IF z.re = NaN THEN <<34, 78, 97, 78, 43, 45, 73, 110, 102, 105, 34>>
    ELSE IF op = "AddComplex128" THEN <<34, 48, 46, 49, 43, 48, 46, 50, 105, 34>>
    ELSE <<34>> \o Wide01 \o <<43>> \o Wide02 \o <<105, 34>>

BinaryText(p) ==
    CASE Len(p) = 0 -> <<34, 34>>
      [] Len(p) = 1 -> <<34, 97, 65, 61, 61, 34>>
      [] OTHER -> <<34, 97, 71, 107, 104, 34>>

\* the bytes after which addElementSeparator writes nothing
NoCommaAfter == {123, 91, 58, 44, 32}

\* the separator an Add call owes to the buffer it found
OwedSeparator ==
    IF EncBefore # <<>> /\ EncBefore[Len(EncBefore)] \notin NoCommaAfter
    THEN IF elast.pre.encs[elast.e].spaced THEN <<44, 32>> ELSE <<44>>
    ELSE <<>>

\* a key of printable ASCII, escaped: a backslash before a quote or a backslash
RECURSIVE EscapedAscii(_)
EscapedAscii(k) ==
    IF k = <<>> THEN <<>>
    ELSE (IF Head(k) \in {34, 92} THEN <<92, Head(k)>> ELSE <<Head(k)>>)
         \o EscapedAscii(Tail(k))

\* separator, quoted key, colon (and space) of the last Add call
MemberHead ==
    OwedSeparator \o <<34>> \o EscapedAscii(elast.arg.key) \o <<34, 58>>
    \o (IF elast.pre.encs[elast.e].spaced THEN <<32>> ELSE <<>>)

\* what the call wrote after the head of the member
MemberValue == SubSeq(EncNew, Len(MemberHead) + 1, Len(EncNew))

\* the call wrote separator, key, colon and then a value with no comma
WroteMember ==
    /\ Len(EncNew) > Len(MemberHead)
    /\ SubSeq(EncNew, 1, Len(MemberHead)) = MemberHead
    /\ MemberValue[1] \notin {44, 32}
    /\ elast.op \in IntegerOps => MemberValue = <<49>>
    /\ elast.op \in {"AddFloat64", "AddFloat32"} =>
           MemberValue = FloatText(elast.op, elast.arg.v)
    /\ elast.op \in {"AddComplex128", "AddComplex64"} =>
           MemberValue = ComplexText(elast.op, elast.arg.v)
    /\ elast.op = "AddBinary" => MemberValue = BinaryText(elast.arg.v)
    /\ elast.op = "AddBool" => MemberValue = <<116, 114, 117, 101>>
    /\ elast.op = "AddString" => MemberValue = <<34, 118, 34>>
    /\ elast.op = "AddByteString" => MemberValue[1] = 34
    /\ elast.op = "AddReflected" => MemberValue = elast.arg.v.json
    /\ elast.op = "AddObject" => MemberValue[1] = 123
    /\ elast.op = "AddArray" => MemberValue[1] = 91

\* C22 as stated: every Add<Type>(key, value) call writes a comma exactly
\* when the buffer is non-empty and ends in none of '{', '[', ':', ',' and
\* space, then the quoted escaped key and a colon, then the value, which has
\* no comma in front of it.
C22_EveryAddWritesMember == elast.op \in AddOps => WroteMember

\* what the code does in place of C22: every Add<Type>(key, value) call
\* writes the separator, the key and the value in that way, but for two.
\* AddReflected of a value that cannot be encoded returns the error and
\* writes nothing.  AddDuration and AddTime on an encoder that has no
\* EncoderConfig, as New, newEncoder and Clone make it, write the separator,
\* the key and the colon and panic before any value is written.
C22_AddWritesMemberOrFails ==
    elast.op \in AddOps =>
        CASE elast.op = "AddReflected" /\ elast.err # 0 -> EncNew = <<>>
          [] elast.panic ->
                /\ elast.op \in {"AddDuration", "AddTime"}
                /\ elast.pre.encs[elast.e].cfg.nil
                /\ EncNew = MemberHead
          [] OTHER -> WroteMember

\* AddDuration("k", 1ns) on an encoder without configuration, whose buffer
\* holds the brace of the entry: the call wrote "k": and panicked
C22_Witness ==
    /\ elast.op = "AddDuration"
    /\ elast.panic
    /\ EncBefore = <<123>>
    /\ EncNew = <<34, 107, 34, 58>>

\* the opening braces of t that no closing brace matches, but for the brace
\* that opens the entry's object; no string of the model holds a brace
UnmatchedBraces(t) ==
    Count(t, 123) - Count(t, 125) - (IF t # <<>> /\ t[1] = 123 THEN 1 ELSE 0)

\* C23: in every reachable state of an encoder, after any sequence of
\* OpenNamespace, Add*, closeOpenNamespaces and truncate calls, the counter
\* openNamespaces is the number of braces written by OpenNamespace that have
\* no matching closing brace in the buffer.
C23_CounterIsUnmatchedBraces ==
    \A e \in DOMAIN encs : encs[e].openNamespaces = UnmatchedBraces(EBuf(World, e))

\* "ns":{   "ns":{"k":"v"   {"ns":{"k":"v"}}
NsOpened == <<34, 110, 115, 34, 58, 123>>

NsMember == NsOpened \o <<34, 107, 34, 58, 34, 118, 34>>

NsJson == <<123>> \o NsMember \o <<125, 125>>

\* the last call found the text t in the buffer of an encoder with one
\* open namespace
NsFound(t) ==
    /\ elast.op \in {"AddString", "closeOpenNamespaces"}
    /\ EncBefore = t
    /\ elast.pre.encs[elast.e].openNamespaces = 1

\* C24 as stated: OpenNamespace("ns") and AddString("k","v") leave
\* "ns":{"k":"v" with depth 1, and appending as many closing braces as the
\* depth gives the JSON {"ns":{"k":"v"}}.
C24_ClosingGivesJson ==
    /\ elast.op = "AddString" /\ NsFound(NsOpened) =>
           EncAfter = NsMember /\ encs[elast.e].openNamespaces = 1
    /\ elast.op = "closeOpenNamespaces" /\ NsFound(NsMember) => EncAfter = NsJson

\* C24: OpenNamespace("ns") and AddString("k","v") leave "ns":{"k":"v" with
\* depth 1; closing the open namespaces appends one brace and gives
\* "ns":{"k":"v"}, the members of an object: it is {"ns":{"k":"v"}} once the
\* braces of the enclosing object are put around it.
C24_ClosingGivesMembers ==
    /\ elast.op = "AddString" /\ NsFound(NsOpened) =>
           EncAfter = NsMember /\ encs[elast.e].openNamespaces = 1
    /\ elast.op = "closeOpenNamespaces" /\ NsFound(NsMember) =>
           /\ EncAfter = NsMember \o <<125>>
           /\ <<123>> \o EncAfter \o <<125>> = NsJson

\* the namespaces were closed after OpenNamespace("ns"), AddString("k","v")
C24_Witness == elast.op = "closeOpenNamespaces" /\ NsFound(NsMember)

\* C25: for every byte sequence s, safeAddByteString(s) appends the bytes
\* that safeAddString(string(s)) appends, also for control characters,
\* runes cut short and bytes that are no UTF-8: the value AddByteString
\* writes is the value AddString writes for the same bytes.
C25_ByteStringAsString ==
    elast.op = "AddByteString" =>
        /\ SubSeq(EncNew, 1, Len(MemberHead)) = MemberHead
        /\ MemberValue =
               <<34>> \o SafeAddStringFrom(<<>>, elast.arg.v, 0) \o <<34>>
        /\ EncAfter = EBuf(EncAddString(elast.pre, elast.e, elast.arg.key,
                                        elast.arg.v), elast.e)

\* AddByteString of a rune cut short after its first byte: the escape of U+FFFD, as
\* safeAddString writes it
C25_Witness ==
    /\ elast.op = "AddByteString"
    /\ elast.arg.v = <<195>>
    /\ MemberValue = <<34, 92, 117, 102, 102, 102, 100, 34>>

\* the places of t where the text m stands
Occurrences(t, m) ==
    {k \in 1..Len(t) : k + Len(m) - 1 <= Len(t) /\ SubSeq(t, k, k + Len(m) - 1) = m}

\* "k":
KeyK == <<34, 107, 34, 58>>

\* the key of the last call as a member's key: quoted, escaped, with the colon
QuotedKey == <<34>> \o EscapedAscii(elast.arg.key) \o <<34, 58>>

\* C26: every Add*, Append* and OpenNamespace call only appends to the
\* buffer: what the buffer held before the call is a prefix of what it
\* holds after it, also when a marshal callback returns an error, and when
\* the key was written before (then both members are in the buffer, the
\* earlier one first).
C26_OnlyAppends ==
    elast.op \in AddOps \cup AppendOps \cup {"OpenNamespace"} =>
        /\ EncKeptPrefix
        /\ elast.op \in AppendOps => Len(EncNew) > 0
        /\ elast.op \in {"AddObject", "AddArray"} /\ elast.err # 0 =>
               Len(EncNew) >= Len(MemberHead) + 2
        /\ (elast.op \notin AppendOps /\ ~(elast.op = "AddReflected" /\ elast.err # 0)) =>
               /\ Occurrences(EncNew, MemberHead) # {}
               /\ Cardinality(Occurrences(EncAfter, QuotedKey))
                      > Cardinality(Occurrences(EncBefore, QuotedKey))

\* AddString("k","v") on a buffer that holds "k":1 already: both members
\* are there, in the order of the calls
C26_Witness ==
    /\ elast.op = "AddString"
    /\ EncBefore = KeyK \o <<49>>
    /\ EncAfter = KeyK \o <<49, 44>> \o KeyK \o <<34, 118, 34>>

\* t with every string literal replaced by one quote
RECURSIVE StripFrom(_, _, _)
StripFrom(t, k, inString) ==
    IF k > Len(t) THEN <<>>
    ELSE IF inString
    THEN IF t[k] = 92 THEN StripFrom(t, k + 2, TRUE)
         ELSE IF t[k] = 34 THEN <<34>> \o StripFrom(t, k + 1, FALSE)
         ELSE StripFrom(t, k + 1, TRUE)
    ELSE IF t[k] = 34 THEN StripFrom(t, k + 1, TRUE)
    ELSE <<t[k]>> \o StripFrom(t, k + 1, FALSE)

Stripped(t) == StripFrom(t, 1, FALSE)

\* the bytes that end a value and the bytes that start one, in stripped
\* text: a string, the digit 1, -0.2 or -0.20000000298023224, true, an
\* object, an array
ValueEnd == {34, 49, 50, 52, 101, 125, 93}

ValueStart == {34, 45, 49, 116, 123, 91}

\* no comma after '{', '[', ':' or a comma, and no value directly after a
\* value
WellSeparated(u) ==
    /\ \A k \in 1..Len(u) : u[k] = 44 => k > 1 /\ u[k - 1] \notin {123, 91, 58, 44}
    /\ \A k \in 1..(Len(u) - 1) : ~(u[k] \in ValueEnd /\ u[k + 1] \in ValueStart)

\* C27: on an encoder with spaced unset whose buffer started with '{',
\* after any sequence of Add*, AddObject, AddArray (with Append* calls in
\* the arrays) and OpenNamespace calls, no comma outside a string follows
\* '{', '[', ':' or a comma, and two members of an object or of an array
\* that follow each other have exactly one comma between them.
C27_SeparatorsWellPlaced ==
    \A e \in DOMAIN encs : ~encs[e].spaced => WellSeparated(Stripped(EBuf(World, e)))

\* {"k":1,"k":[1,[1],1] was written: members after the opening brace and
\* after a value, elements at the start of an array and after an array
C27_Witness ==
    /\ elast.op = "AddArray"
    /\ ~encs[elast.e].spaced
    /\ EncAfter = <<123>> \o KeyK \o <<49, 44>> \o KeyK
                  \o <<91, 49, 44, 91, 49, 93, 44, 49, 93>>

----------------------------------------------------------------------------
(* Properties of the two MapBuffer implementations *)

\* C29: given the same sequence of Reset, AppendByte, AppendString,
\* AppendInt, AppendUint, AppendBool, Write, WriteString, Truncate and
\* TrimNewline calls, the sync.Map backed MapBuffer returns the same Bytes(),
\* String() and Len() as the byte-slice backed one, and panics exactly when
\* the other does.
C29_SameBytesStringLen ==
    twin.op # "none" =>
        /\ twin.shown = MbBytes(twin.mem, twin.mb)
        /\ SmLen(twin.m) = MbLen(twin.mb)
        /\ twin.panicSm = twin.panicBs

----------------------------------------------------------------------------
(* Properties of EncodeEntry of the stackdriver Encoder *)

\* C28: EncodeEntry does not change the persistent context of the Encoder:
\* whatever context.user, context.httpRequest and context.reportLocation
\* fields a call is given, the user, the HTTP request and the report location
\* the Encoder holds after the call are those it held before, extractCtx
\* working on a copy.
C28_PersistentContextKept ==
    sent.op = "EncodeEntry" => sde[sent.e].ctx = sent.held

\* a call on an Encoder holding a user, a request and a location was given
\* other ones for all three, which the context passed on carries
C28_Witness ==
    /\ sent.op = "EncodeEntry"
    /\ sent.held = LogContext("root", HTTPRequest("GET /"), ReportLocation("p.go", 9))
    /\ \E i \in 1..Len(sent.passed) :
          /\ sent.passed[i].Key = keyContext
          /\ sent.passed[i].val # Nil
          /\ sent.passed[i].val.User = "alice"
          /\ sent.passed[i].val.HTTPRequest = HTTPRequest("POST /x")

\* the members of the object obj whose key is k
MembersAt(obj, k) == {i \in 1..Len(obj) : obj[i].Key = k}

\* C21: each EncodeEntry call, of the Encoder of stackdriver.go and of the
\* stackdriverEncoder, passes exactly one entry to the sink's Log,
\* once the wrapped encoder has encoded the entry: its Timestamp is the time
\* of the entry, its Severity is parseLevel of the level of the entry, and
\* its Payload is the content of the buffer that EncodeEntry returns, which
\* holds every field the wrapped encoder was given.
C21_LoggedOnceWhatIsReturned ==
    (\/ sent.op = "EncodeEntry" /\ sde[sent.e].version = "stackdriver.go"
     \/ sent.op = "stackdriverEncoder.EncodeEntry") =>
        /\ Len(sent.logged) = 1
        /\ sent.logged[1].Timestamp = sent.ent.Time
        /\ sent.logged[1].Severity = ParseLevel(sent.ent.Level)
        /\ sent.logged[1].Payload = sent.buf
        /\ sent.op = "EncodeEntry" =>
               \A i \in 1..Len(sent.passed) :
                   \E j \in 1..Len(sent.logged[1].Payload) :
                       sent.logged[1].Payload[j] = sent.passed[i]

\* what holds of every call: one that panics, in the wrapped encoder on a
\* field that wraps a nil pointer or in Log on an Encoder that has no sink,
\* logs nothing; every other one logs once what C21 says
C21_LoggedOnceUnlessPanic ==
    (\/ sent.op = "EncodeEntry" /\ sde[sent.e].version = "stackdriver.go"
     \/ sent.op = "stackdriverEncoder.EncodeEntry") =>
        IF sent.op = "EncodeEntry" /\ sent.panic
        THEN /\ sent.logged = <<>>
             /\ \/ \E i \in 1..Len(sent.passed) : sent.passed[i].val = Nil
                \/ sde[sent.e].lg = Nil
        ELSE /\ Len(sent.logged) = 1
             /\ sent.logged[1].Timestamp = sent.ent.Time
             /\ sent.logged[1].Severity = ParseLevel(sent.ent.Level)
             /\ sent.logged[1].Payload = sent.buf
             /\ sent.op = "EncodeEntry" =>
                    \A i \in 1..Len(sent.passed) :
                        \E j \in 1..Len(sent.logged[1].Payload) :
                            sent.logged[1].Payload[j] = sent.passed[i]

\* the Encoder of init was given an entry of time 5 and no field: the
\* wrapped encoder wrote the object of the entry, Log panicked on the nil
\* sink, and nothing was logged
C21_Witness ==
    /\ sent.op = "EncodeEntry"
    /\ sde[sent.e] = InitEncoder
    /\ sent.ent.Time = 5
    /\ sent.fields = <<>>
    /\ sent.buf # <<>>
    /\ sent.panic
    /\ sent.panicIn = "lg.Log"
    /\ sent.logged = <<>>

\* an entry of time 5 and level d-panic was encoded with a context, and the
\* sink got it with the severity Critical and the context in its payload
C21_Logged ==
    /\ sent.op = "EncodeEntry"
    /\ sde[sent.e].version = "stackdriver.go"
    /\ sent.ent.Time = 5
    /\ sent.ent.Level = DPanicLevel
    /\ Len(sent.logged) = 1
    /\ sent.logged[1].Severity = "Critical"
    /\ MembersAt(sent.logged[1].Payload, keyContext) # {}
    /\ sent.logged[1].Payload = sent.buf

\* C30: in one EncodeEntry call of the wrapping Encoder the time, the logger
\* name and the message of the entry are each written at most once: the
\* object written for the entry holds the time key, the logger-name key and
\* the message key at most once each.
C30_EntryKeysAtMostOnce ==
    sent.op = "EncodeEntry" =>
        \A k \in {EncoderConfig.TimeKey, EncoderConfig.NameKey, EncoderConfig.MessageKey} :
            Cardinality(MembersAt(sent.buf, k)) <= 1

====
